---------------------------- MODULE Spec2Model ----------------------------
(***************************************************************************)
(* A model of the RabbitReels control plane: the credit ledger, the        *)
(* payment webhook, the video submission endpoint, the status / refund     *)
(* callbacks and the render pipeline.                                      *)
(*                                                                         *)
(* Every HTTP handler runs in its own database session (get_db) and,      *)
(* being a plain `def` endpoint or a separate API process, may interleave  *)
(* with any other handler between two accesses to the database, to Redis   *)
(* or to the message broker.  One action of the model is one such access   *)
(* together with the local computation that follows it.  The SQLAlchemy    *)
(* session reads a row with a plain SELECT (no FOR UPDATE) and writes the  *)
(* value it computed in Python at commit, so a commit overwrites whatever  *)
(* was committed since the read (PostgreSQL READ COMMITTED).               *)
(***************************************************************************)
EXTENDS Integers, Sequences, FiniteSets, Bags, TLC

-----------------------------------------------------------------------------
(* Bounds of the model *)

\* Number of user ids.
NumUsers == 1

\* Number of database sessions running ledger operations concurrently.
NumSessions == 2

\* Total number of ledger operations started in one behaviour.
MaxOps == 4

\* Number of paid checkout sessions.
NumCheckouts == 1

\* Number of payment events handled concurrently.
NumHandlers == 2

\* Total number of payment events delivered in one behaviour.
MaxDeliveries == 3

\* Number of job ids, each submitted at most once.
NumJobs == 2

\* Number of calls of update-status and refund-credit running concurrently.
NumCallers == 2

\* Total number of calls of the two endpoints in one behaviour.
MaxCalls == 3

\* Number of video creator replicas (worker ids).
NumWorkers == 2

\* Number of processes calling the job manager concurrently.
NumJmCallers == 2

\* Number of job ids handed to the job manager.
NumTracked == 1

\* Number of job states archived in one behaviour.
MaxHistory == 2

\* Most copies of the message of a job on a queue.
MaxReplays == 2

\* Largest value configured for JOB_MAX_RETRIES.
MaxRetriesCfg == 1

\* Number of scaling controllers running.
NumControllers == 2

\* Largest value configured for MAX_WORKERS.
MaxWorkersCfg == 2

\* Largest number of worker containers followed.
MaxFleet == 3

\* Largest number of pending jobs in the job manager's statistics.
MaxPending == 4

\* Largest depth of the video queue and largest number of jobs in one state
\* of the job manager's statistics.
MaxQueueDepth == 2

Users == 1 .. NumUsers

Jobs == 1 .. NumJobs

Checkouts == 1 .. NumCheckouts

Handlers == 1 .. NumHandlers

DbSessions == 1 .. NumSessions

Callers == 1 .. NumCallers

Workers == 1 .. NumWorkers

JmCallers == 1 .. NumJmCallers

TrackedJobs == 1 .. NumTracked

\* The job ids of the specification of the recovery sweep, which needs a
\* job next to the one that is recovered.
RecoveryJobs == 1 .. NumTracked + 1

Controllers == 1 .. NumControllers

-----------------------------------------------------------------------------
(* Program constants *)

\* Welcome credit written by store_user.
WelcomeCredits == 1

\* Smallest credit pack of CREDIT_PRICES (2, 10 and 50 credits are sold).
SmallPack == 2

CreditPacks == {SmallPack}

\* job_manager.py: default of JOB_MAX_RETRIES.
JOB_MAX_RETRIES == 3

\* main.py line 167: the count of generated videos the API starts with.
InitialVideoCount == 104

-----------------------------------------------------------------------------
VARIABLES
    users,                \* table users: ids of the stored users
    credit_balances,      \* table credit_balances: user_id -> credits
    credit_transactions,  \* table credit_transactions: bag of ledger rows
    tx,                   \* a database session running a ledger operation
    nops,                 \* ledger operations started so far
    processed_session,    \* Redis keys processed_session:{id} that are set
    pay,                  \* a handler of a payment event
    credited,             \* history: grants committed per checkout session
    ndeliveries,          \* payment events delivered so far
    user_videos,          \* table user_videos: job_id -> row
    kv,                   \* Redis keys {job_id}: the status snapshot of a job
    scripts_queue,        \* scripts-queue: messages per job_id
    sub,                  \* the submit_video call of a job_id
    call,                 \* a call of update-status or refund-credit
    ncalls,               \* calls of the two endpoints started so far
    refunded,             \* history: refunds committed per job_id
    video_queue,          \* video-queue: messages per job_id
    vc,                   \* video creator: the job_id a worker is rendering
    render_failed,        \* history: job_ids whose rendering raised
    video_count,          \* table system_stats: video_generation_count
    done_writes,          \* history: writes of the status "done" per job_id
    videos,               \* files {job_id}.mp4 of the output directory
    scaling_jobs,         \* Redis hash scaling_jobs: job_id -> job state
    job_assignments,      \* Redis hash job_assignments: worker_id -> job_id
    job_history,          \* Redis list job_history, newest first
    jm_max_retries,       \* JobManager.max_retries (JOB_MAX_RETRIES)
    jm,                   \* a call of a JobManager method
    jm_ret,               \* what the last call of a JobManager method returned
    scaling_workers,      \* Redis hash scaling_workers: worker_id -> record
    hm,                   \* the WorkerHealthMonitor of a worker
    containers,           \* the worker containers of the fleet
    ctl,                  \* the scaling controller in its loop
    min_workers,          \* MIN_WORKERS
    max_workers,          \* MAX_WORKERS
    worker_count,         \* what get_current_workers_count returns
    sc,                   \* a scaling controller between scaling actions
    qm,                   \* the queue monitor: metrics and recommendation
    status_info,          \* status_consumer: the job whose snapshot it holds
    worker_capacity       \* Redis hash worker_capacity: worker_id -> record

vars == <<users, credit_balances, credit_transactions, tx, nops,
          processed_session, pay, credited, ndeliveries,
          user_videos, kv, scripts_queue, sub,
          call, ncalls, refunded, video_queue, vc, render_failed,
          video_count, done_writes, videos,
          scaling_jobs, job_assignments, job_history, jm_max_retries, jm,
          jm_ret, scaling_workers, hm, containers, ctl,
          min_workers, max_workers, worker_count, sc, qm,
          status_info, worker_capacity>>

dbVars == <<users, credit_balances, credit_transactions>>

ledgerVars == <<tx, nops>>

payVars == <<processed_session, pay, credited, ndeliveries>>

jobVars == <<user_videos, kv, scripts_queue>>

apiVars == <<user_videos, kv, scripts_queue, sub>>

callVars == <<call, ncalls, refunded>>

renderedVars == <<video_count, done_writes, videos>>

workerVars == <<video_queue, vc, render_failed, renderedVars>>

scalerVars == <<min_workers, max_workers, worker_count, sc, qm>>

fleetVars == <<scaling_workers, hm, containers, ctl, scalerVars>>

\* The state kept for the scaling controller: the job manager and the fleet.
jmVars == <<scaling_jobs, job_assignments, job_history, jm_max_retries, jm,
           jm_ret, fleetVars, status_info, worker_capacity>>

restVars == <<callVars, workerVars, jmVars>>

-----------------------------------------------------------------------------
(* The database tables *)

\* A row of credit_transactions (id and created_at are not modelled).
CreditTransaction(u, n, d) == [user_id |-> u, amount |-> n, description |-> d]

\* What db.query(CreditBalance).filter(user_id == u).first() returns.
QueryBalance(u) ==
    IF u \in DOMAIN credit_balances
    THEN [has |-> TRUE, credits |-> credit_balances[u]]
    ELSE [has |-> FALSE, credits |-> 0]

NoRow == [has |-> FALSE, credits |-> 0]

get_user_credits(u) == QueryBalance(u).credits

RECURSIVE SumAmounts(_, _)
SumAmounts(bag, rows) ==
    IF rows = {} THEN 0
    ELSE LET r == CHOOSE x \in rows : TRUE
         IN  r.amount * bag[r] + SumAmounts(bag, rows \ {r})

\* The signed sum of the ledger rows of user u.
LedgerSum(u) ==
    SumAmounts(credit_transactions,
               {r \in DOMAIN credit_transactions : r.user_id = u})

RECURSIVE CountRows(_, _)
CountRows(bag, rows) ==
    IF rows = {} THEN 0
    ELSE LET r == CHOOSE x \in rows : TRUE
         IN  bag[r] + CountRows(bag, rows \ {r})

\* Number of ledger rows of user u with the given amount sign / description.
SpendRows(u) ==
    CountRows(credit_transactions,
              {r \in DOMAIN credit_transactions : r.user_id = u /\ r.amount < 0})

GrantedCredits(u) ==
    SumAmounts(credit_transactions,
               {r \in DOMAIN credit_transactions : r.user_id = u /\ r.amount > 0})

RefundRows(u) ==
    CountRows(credit_transactions,
              {r \in DOMAIN credit_transactions :
                  r.user_id = u /\ r.description = "refund"})

AddRow(r) == credit_transactions (+) SetToBag({r})

-----------------------------------------------------------------------------
(* billing.py: the ledger operations.  `seen` is the balance row the       *)
(* session read; the commit writes seen.credits +/- n.                     *)

\* grant_credits, lines 77-82: the new value of the balance table.
grant_credits_balance(u, seen, n) ==
    IF seen.has
    THEN [credit_balances EXCEPT ![u] = seen.credits + n]
    ELSE credit_balances @@ (u :> n)

\* grant_credits INSERTs the row it did not find: the primary key rejects
\* the INSERT when another session has inserted it since.
grant_credits_can_commit(u, seen) == seen.has \/ u \notin DOMAIN credit_balances

\* grant_credits, lines 85-90: the ledger row.
grant_credits_row(u, n) == CreditTransaction(u, n, "purchase")

\* spend_credit, line 106: the guard that raises 402.
spend_credit_insufficient(seen) == ~seen.has \/ seen.credits <= 0

\* spend_credit, line 112.
spend_credit_balance(u, seen) ==
    [credit_balances EXCEPT ![u] = seen.credits - 1]

\* spend_credit, lines 114-119.
spend_credit_row(u) == CreditTransaction(u, 0 - 1, "spend")

\* refund_credit(user_id, db, reason): imported by main.py from billing, not
\* defined in the sources at hand.  Specified as a grant of +1 tagged as a
\* refund, one transaction.
refund_credit_balance(u) ==
    IF u \in DOMAIN credit_balances
    THEN [credit_balances EXCEPT ![u] = @ + 1]
    ELSE credit_balances @@ (u :> 1)

refund_credit_row(u) == CreditTransaction(u, 1, "refund")

-----------------------------------------------------------------------------
(* Ledger operations called directly, each in its own database session *)

Idle == [op |-> "idle", user |-> 0, amount |-> 0, pc |-> "idle",
         seen |-> NoRow, result |-> "none"]

Finished(t, res) == [t EXCEPT !.pc = "done", !.seen = NoRow, !.result = res]

\* auth.py store_user, lines 88-128: user, balance row and welcome row are
\* added to one session and committed together.
store_user(s, u) ==
    /\ tx[s].pc \in {"idle", "done"}
    /\ nops < MaxOps
    /\ u \notin users
    /\ u \notin DOMAIN credit_balances
    /\ users' = users \cup {u}
    /\ credit_balances' = credit_balances @@ (u :> WelcomeCredits)
    /\ credit_transactions' = AddRow(CreditTransaction(u, WelcomeCredits, "welcome"))
    /\ tx' = [tx EXCEPT ![s] = [Idle EXCEPT !.op = "store_user", !.user = u,
                                           !.pc = "done", !.result = "ok"]]
    /\ nops' = nops + 1
    /\ UNCHANGED <<payVars, apiVars, restVars>>

\* A caller enters grant_credits or spend_credit.
BeginOp(s, op, u, n) ==
    /\ tx[s].pc \in {"idle", "done"}
    /\ nops < MaxOps
    /\ tx' = [tx EXCEPT ![s] = [Idle EXCEPT !.op = op, !.user = u,
                                           !.amount = n, !.pc = "query"]]
    /\ nops' = nops + 1
    /\ UNCHANGED <<users, credit_balances, credit_transactions, payVars, apiVars, restVars>>

\* billing.py line 77: grant_credits reads the balance row.
grant_credits_query(s) ==
    /\ tx[s].op = "grant" /\ tx[s].pc = "query"
    /\ tx' = [tx EXCEPT ![s].seen = QueryBalance(tx[s].user), ![s].pc = "commit"]
    /\ UNCHANGED <<users, credit_balances, credit_transactions, nops, payVars, apiVars, restVars>>

\* billing.py lines 78-91: balance and ledger row are committed together.
grant_credits_commit(s) ==
    /\ tx[s].op = "grant" /\ tx[s].pc = "commit"
    /\ grant_credits_can_commit(tx[s].user, tx[s].seen)
    /\ credit_balances' = grant_credits_balance(tx[s].user, tx[s].seen, tx[s].amount)
    /\ credit_transactions' = AddRow(grant_credits_row(tx[s].user, tx[s].amount))
    /\ tx' = [tx EXCEPT ![s] = Finished(tx[s], "ok")]
    /\ UNCHANGED <<users, nops, payVars, apiVars, restVars>>

\* billing.py lines 94-97: the commit raises, the session rolls back and the
\* exception propagates; nothing was written.
grant_credits_rollback(s) ==
    /\ tx[s].op = "grant" /\ tx[s].pc = "commit"
    /\ tx' = [tx EXCEPT ![s] = Finished(tx[s], "error")]
    /\ UNCHANGED <<users, credit_balances, credit_transactions, nops, payVars, apiVars, restVars>>

\* billing.py lines 104-110: spend_credit reads the balance row and raises
\* 402 without a row or without credits.
spend_credit_query(s) ==
    /\ tx[s].op = "spend" /\ tx[s].pc = "query"
    /\ LET seen == QueryBalance(tx[s].user)
       IN  tx' = [tx EXCEPT ![s] =
                    IF spend_credit_insufficient(seen)
                    THEN Finished(tx[s], "402")
                    ELSE [tx[s] EXCEPT !.seen = seen, !.pc = "commit"]]
    /\ UNCHANGED <<users, credit_balances, credit_transactions, nops, payVars, apiVars, restVars>>

\* billing.py lines 112-120.
spend_credit_commit(s) ==
    /\ tx[s].op = "spend" /\ tx[s].pc = "commit"
    /\ credit_balances' = spend_credit_balance(tx[s].user, tx[s].seen)
    /\ credit_transactions' = AddRow(spend_credit_row(tx[s].user))
    /\ tx' = [tx EXCEPT ![s] = Finished(tx[s], "ok")]
    /\ UNCHANGED <<users, nops, payVars, apiVars, restVars>>

\* billing.py lines 125-128: rollback, HTTP 500.
spend_credit_rollback(s) ==
    /\ tx[s].op = "spend" /\ tx[s].pc = "commit"
    /\ tx' = [tx EXCEPT ![s] = Finished(tx[s], "500")]
    /\ UNCHANGED <<users, credit_balances, credit_transactions, nops, payVars, apiVars, restVars>>

\* refund_credit, one transaction.
refund_credit(s, u) ==
    /\ tx[s].pc \in {"idle", "done"}
    /\ nops < MaxOps
    /\ credit_balances' = refund_credit_balance(u)
    /\ credit_transactions' = AddRow(refund_credit_row(u))
    /\ tx' = [tx EXCEPT ![s] = [Idle EXCEPT !.op = "refund", !.user = u,
                                           !.pc = "done", !.result = "ok"]]
    /\ nops' = nops + 1
    /\ UNCHANGED <<users, payVars, apiVars, restVars>>

-----------------------------------------------------------------------------
(* billing.py: the payment events.  A paid checkout session k carries the  *)
(* buyer (client_reference_id) and the credits bought (metadata).          *)

session_user(k) == 1

session_credits(k) == SmallPack

PayIdle == [kind |-> "idle", session |-> 0, pc |-> "idle", r |-> FALSE,
            seen |-> NoRow, result |-> "none"]

PayFinished(h, res) ==
    [pay[h] EXCEPT !.pc = "done", !.seen = NoRow, !.r = FALSE, !.result = res]

\* What a handler answers when it finds the session marked: the webhook
\* skips it and answers 200 (lines 316-317, 339-340), process-payment
\* answers 409 (lines 248-252).
AlreadyProcessed(kind) == IF kind = "manual" THEN "409" ELSE "skipped"

\* stripe_webhook lines 301-316 and 325-339, process_payment_manually lines
\* 244-252: get_redis() gives a client or None (redis_up), and with a client
\* the handler reads the marker of the session.
payment_check(h, kind, k, redis_up) ==
    /\ pay[h].pc \in {"idle", "done"}
    /\ ndeliveries < MaxDeliveries
    /\ ndeliveries' = ndeliveries + 1
    /\ pay' = [pay EXCEPT ![h] =
                IF redis_up /\ k \in processed_session
                THEN [PayIdle EXCEPT !.kind = kind, !.session = k, !.pc = "done",
                                     !.result = AlreadyProcessed(kind)]
                ELSE [PayIdle EXCEPT !.kind = kind, !.session = k, !.r = redis_up,
                                     !.pc = "query"]]
    /\ UNCHANGED <<dbVars, ledgerVars, processed_session, credited, apiVars, restVars>>

\* grant_credits called by the handler (lines 254, 312, 319, 335, 342): the
\* read of the balance row.
payment_grant_query(h) ==
    /\ pay[h].pc = "query"
    /\ pay' = [pay EXCEPT ![h].seen = QueryBalance(session_user(pay[h].session)),
                          ![h].pc = "commit"]
    /\ UNCHANGED <<dbVars, ledgerVars, processed_session, credited, ndeliveries, apiVars, restVars>>

\* grant_credits commits; without a Redis client the handler is done.
payment_grant_commit(h) ==
    /\ pay[h].pc = "commit"
    /\ LET k == pay[h].session
           u == session_user(k)
       IN  /\ grant_credits_can_commit(u, pay[h].seen)
           /\ credit_balances' = grant_credits_balance(u, pay[h].seen, session_credits(k))
           /\ credit_transactions' = AddRow(grant_credits_row(u, session_credits(k)))
           /\ credited' = [credited EXCEPT ![k] = @ + 1]
    /\ pay' = [pay EXCEPT ![h] =
                IF pay[h].r THEN [pay[h] EXCEPT !.pc = "mark", !.seen = NoRow]
                ELSE PayFinished(h, "granted")]
    /\ UNCHANGED <<users, ledgerVars, processed_session, ndeliveries, apiVars, restVars>>

\* grant_credits raises: the handler answers 500 (lines 270-272, 353-355).
payment_grant_rollback(h) ==
    /\ pay[h].pc = "commit"
    /\ pay' = [pay EXCEPT ![h] = PayFinished(h, "500")]
    /\ UNCHANGED <<dbVars, ledgerVars, processed_session, credited, ndeliveries, apiVars, restVars>>

\* r.setex(processed_key, 86400, "1"), lines 257, 320, 343.
payment_mark(h) ==
    /\ pay[h].pc = "mark"
    /\ processed_session' = processed_session \cup {pay[h].session}
    /\ pay' = [pay EXCEPT ![h] = PayFinished(h, "granted")]
    /\ UNCHANGED <<dbVars, ledgerVars, credited, ndeliveries, apiVars, restVars>>

EventKinds == {"checkout.session.completed",
               "checkout.session.async_payment_succeeded", "manual"}

-----------------------------------------------------------------------------
(* main.py: submit_video.  The job_id comes with the request; a second     *)
(* request with a job_id that has a row, like any other failure of the     *)
(* INSERT, ends in the 500 of lines 301-304.                               *)

\* config.py AVAILABLE_THEMES.
AVAILABLE_THEMES == {"family_guy", "rick_and_morty"}

\* The themes a request may carry: submit_video only tests whether the theme
\* is available, so one theme of each kind is submitted.
Themes == {"family_guy", "south_park"}

\* main.py line 364.
max_retries == 3

\* The row of lines 290-297.
UserVideo(u, theme) == [user_id |-> u, character_theme |-> theme, status |-> "queued"]

NotSubmitted == [pc |-> "idle", user |-> 0, theme |-> "", seen |-> NoRow,
                 r |-> FALSE, attempt |-> 0, err |-> "none", resp |-> "none",
                 debits |-> 0]

\* The call has answered: its locals are gone.
Responded(c, code) ==
    [c EXCEPT !.pc = "done", !.r = FALSE, !.attempt = 0, !.err = "none",
              !.resp = code]

\* A submission that spends the credit without having stored the row.
submit_video_without_row(j, u, theme) ==
    /\ sub[j].pc = "idle"
    /\ j \notin DOMAIN user_videos
    /\ sub' = [sub EXCEPT ![j] = [NotSubmitted EXCEPT !.pc = "spend_query",
                                                      !.user = u, !.theme = theme]]
    /\ UNCHANGED <<dbVars, ledgerVars, payVars, restVars, jobVars>>

\* Lines 280-300: the row is inserted and committed before any credit is
\* spent.
submit_video(j, u, theme) ==
    /\ sub[j].pc = "idle"
    /\ j \notin DOMAIN user_videos
    /\ user_videos' = user_videos @@ (j :> UserVideo(u, theme))
    /\ sub' = [sub EXCEPT ![j] = [NotSubmitted EXCEPT !.pc = "spend_query",
                                                      !.user = u, !.theme = theme]]
    /\ UNCHANGED <<dbVars, ledgerVars, payVars, restVars, kv, scripts_queue>>

\* Lines 301-304: the INSERT fails.
submit_video_record_error(j, u, theme) ==
    /\ sub[j].pc = "idle"
    /\ sub' = [sub EXCEPT ![j] =
                Responded([NotSubmitted EXCEPT !.user = u, !.theme = theme],
                          "500 record")]
    /\ UNCHANGED <<dbVars, ledgerVars, payVars, restVars, jobVars>>

\* Line 308, spend_credit lines 104-110: the read of the balance row; a 402
\* sends the call to the cleanup of lines 310-320.
submit_spend_query(j) ==
    /\ sub[j].pc = "spend_query"
    /\ LET seen == QueryBalance(sub[j].user)
       IN  sub' = [sub EXCEPT ![j].seen = seen,
                              ![j].pc = IF spend_credit_insufficient(seen)
                                        THEN "cleanup" ELSE "spend_commit",
                              ![j].err = IF spend_credit_insufficient(seen)
                                         THEN "402" ELSE "none"]
    /\ UNCHANGED <<dbVars, ledgerVars, payVars, restVars, jobVars>>

\* spend_credit lines 112-120 commit; then lines 333-343: the theme is
\* checked, after the row was stored and the credit spent.
submit_spend_commit(j) ==
    /\ sub[j].pc = "spend_commit"
    /\ credit_balances' = spend_credit_balance(sub[j].user, sub[j].seen)
    /\ credit_transactions' = AddRow(spend_credit_row(sub[j].user))
    /\ sub' = [sub EXCEPT ![j] =
                IF sub[j].theme \notin AVAILABLE_THEMES
                THEN Responded([sub[j] EXCEPT !.debits = @ + 1], "400")
                ELSE [sub[j] EXCEPT !.debits = @ + 1, !.pc = "status"]]
    /\ UNCHANGED <<users, ledgerVars, payVars, restVars, jobVars>>

\* spend_credit lines 125-128: rollback and HTTP 500, which submit_video
\* handles like the 402.
submit_spend_rollback(j) ==
    /\ sub[j].pc = "spend_commit"
    /\ sub' = [sub EXCEPT ![j].pc = "cleanup", ![j].err = "500 credit"]
    /\ UNCHANGED <<dbVars, ledgerVars, payVars, restVars, jobVars>>

\* Lines 312-320: the row is deleted and the error raised again.
submit_cleanup(j) ==
    /\ sub[j].pc = "cleanup"
    /\ user_videos' = [k \in DOMAIN user_videos \ {j} |-> user_videos[k]]
    /\ sub' = [sub EXCEPT ![j] = Responded(sub[j], sub[j].err)]
    /\ UNCHANGED <<dbVars, ledgerVars, payVars, restVars, kv, scripts_queue>>

\* Lines 317-320: the DELETE fails; the failure is logged, the row stays and
\* the error of spend_credit is raised again.
submit_cleanup_error(j) ==
    /\ sub[j].pc = "cleanup"
    /\ sub' = [sub EXCEPT ![j] = Responded(sub[j], sub[j].err)]
    /\ UNCHANGED <<dbVars, ledgerVars, payVars, restVars, jobVars>>

\* Line 357 raises with a Redis client at hand: lines 414-416 answer 500.
submit_status_error(j) ==
    /\ sub[j].pc = "status"
    /\ sub' = [sub EXCEPT ![j] = Responded(sub[j], "500 internal")]
    /\ UNCHANGED <<dbVars, ledgerVars, payVars, restVars, jobVars>>

\* Lines 346-360: with a Redis client the status "queued" is stored.
submit_status(j, redis_up) ==
    /\ sub[j].pc = "status"
    /\ kv' = IF redis_up
             THEN [k \in DOMAIN kv \cup {j} |-> IF k = j THEN "queued" ELSE kv[k]]
             ELSE kv
    /\ sub' = [sub EXCEPT ![j].pc = "publish", ![j].r = redis_up, ![j].attempt = 0]
    /\ UNCHANGED <<dbVars, ledgerVars, payVars, restVars, user_videos, scripts_queue>>

\* Lines 366-381 and 409-410: an attempt publishes the message, the loop
\* breaks and the call answers 202.
submit_publish(j) ==
    /\ sub[j].pc = "publish"
    /\ scripts_queue' = [scripts_queue EXCEPT ![j] = @ + 1]
    /\ sub' = [sub EXCEPT ![j] = Responded(sub[j], "202")]
    /\ UNCHANGED <<dbVars, ledgerVars, payVars, restVars, user_videos, kv>>

\* Lines 383-407: an attempt fails, either before the message is published
\* (lines 369-376 raise) or after it (the close of lines 379-380 raises);
\* the last failure stores the status "error" (with a Redis client) and
\* answers 500, any other is followed by the next attempt.
submit_publish_error(j, published) ==
    /\ sub[j].pc = "publish"
    /\ scripts_queue' = [scripts_queue EXCEPT ![j] = IF published THEN @ + 1 ELSE @]
    /\ IF sub[j].attempt = max_retries - 1
       THEN /\ kv' = IF sub[j].r
                     THEN [k \in DOMAIN kv \cup {j} |->
                              IF k = j THEN "error" ELSE kv[k]]
                     ELSE kv
            /\ sub' = [sub EXCEPT ![j] = Responded(sub[j], "500 queue")]
       ELSE /\ kv' = kv
            /\ sub' = [sub EXCEPT ![j].attempt = @ + 1]
    /\ UNCHANGED <<dbVars, ledgerVars, payVars, restVars, user_videos>>

-----------------------------------------------------------------------------
(* main.py: update_user_video_status and refund_user_credit, the two       *)
(* endpoints "called by video creator service".  Each call reads the row   *)
(* of the job with a plain SELECT and acts on the status it has read.      *)

\* The statuses an update reports.
ReportedStatuses == {"rendering", "done", "error"}

NoCall == [pc |-> "idle", op |-> "none", job |-> 0, user |-> 0,
           status |-> "", result |-> "none"]

Returned(c, res) ==
    [NoCall EXCEPT !.pc = "done", !.op = call[c].op, !.job = call[c].job,
                   !.result = res]

\* Lines 577-591: the row is read; without a row the call returns; a
\* reported "error" on a row that is not in error leads to the refund.
update_user_video_status(c, j, status) ==
    /\ call[c].pc \in {"idle", "done"}
    /\ ncalls < MaxCalls
    /\ ncalls' = ncalls + 1
    /\ call' = [call EXCEPT ![c] =
                IF j \notin DOMAIN user_videos
                THEN [NoCall EXCEPT !.pc = "done", !.op = "update", !.job = j,
                                    !.result = "not found"]
                ELSE [NoCall EXCEPT !.op = "update", !.job = j,
                                    !.user = user_videos[j].user_id,
                                    !.status = status,
                                    !.pc = IF status = "error"
                                              /\ user_videos[j].status # "error"
                                           THEN "refund" ELSE "write"]]
    /\ UNCHANGED <<dbVars, ledgerVars, payVars, apiVars, refunded, workerVars, jmVars>>

\* Lines 585-588: refund_credit.
update_status_refund(c) ==
    /\ call[c].pc = "refund" /\ call[c].op = "update"
    /\ credit_balances' = refund_credit_balance(call[c].user)
    /\ credit_transactions' = AddRow(refund_credit_row(call[c].user))
    /\ refunded' = [refunded EXCEPT ![call[c].job] = @ + 1]
    /\ call' = [call EXCEPT ![c].pc = "write"]
    /\ UNCHANGED <<users, ledgerVars, payVars, apiVars, ncalls, workerVars, jmVars>>

\* Lines 589-591: refund_credit raises; the status is updated all the same.
update_status_refund_error(c) ==
    /\ call[c].pc = "refund" /\ call[c].op = "update"
    /\ call' = [call EXCEPT ![c].pc = "write"]
    /\ UNCHANGED <<dbVars, ledgerVars, payVars, apiVars, ncalls, refunded,
                   workerVars, jmVars>>

\* Lines 593-608: the reported status is written to the row and committed.
update_status_commit(c) ==
    /\ call[c].pc = "write"
    /\ user_videos' = [user_videos EXCEPT ![call[c].job].status = call[c].status]
    /\ call' = [call EXCEPT ![c] = Returned(c, "updated")]
    /\ UNCHANGED <<dbVars, ledgerVars, payVars, kv, scripts_queue, sub, ncalls,
                   refunded, workerVars, jmVars>>

\* Lines 610-613: the commit fails; rollback and HTTP 500.
update_status_rollback(c) ==
    /\ call[c].pc = "write"
    /\ call' = [call EXCEPT ![c] = Returned(c, "500")]
    /\ UNCHANGED <<dbVars, ledgerVars, payVars, apiVars, ncalls, refunded,
                   workerVars, jmVars>>

\* Lines 632-644: the row of the job and the user is read; without it, or
\* with a row in error, the call returns without a refund.
refund_user_credit(c, j, u) ==
    /\ call[c].pc \in {"idle", "done"}
    /\ ncalls < MaxCalls
    /\ ncalls' = ncalls + 1
    /\ call' = [call EXCEPT ![c] =
                IF j \notin DOMAIN user_videos \/ user_videos[j].user_id # u
                THEN [NoCall EXCEPT !.pc = "done", !.op = "refund", !.job = j,
                                    !.result = "not found"]
                ELSE IF user_videos[j].status = "error"
                THEN [NoCall EXCEPT !.pc = "done", !.op = "refund", !.job = j,
                                    !.result = "already refunded"]
                ELSE [NoCall EXCEPT !.pc = "refund", !.op = "refund", !.job = j,
                                    !.user = u]]
    /\ UNCHANGED <<dbVars, ledgerVars, payVars, apiVars, refunded, workerVars, jmVars>>

\* Lines 646-652: refund_credit; the status of the row is left as it is.
refund_credit_commit(c) ==
    /\ call[c].pc = "refund" /\ call[c].op = "refund"
    /\ credit_balances' = refund_credit_balance(call[c].user)
    /\ credit_transactions' = AddRow(refund_credit_row(call[c].user))
    /\ refunded' = [refunded EXCEPT ![call[c].job] = @ + 1]
    /\ call' = [call EXCEPT ![c] = Returned(c, "refunded")]
    /\ UNCHANGED <<users, ledgerVars, payVars, apiVars, ncalls, workerVars, jmVars>>

\* Lines 654-657: refund_credit raises; rollback and HTTP 500.
refund_credit_rollback(c) ==
    /\ call[c].pc = "refund" /\ call[c].op = "refund"
    /\ call' = [call EXCEPT ![c] = Returned(c, "500")]
    /\ UNCHANGED <<dbVars, ledgerVars, payVars, apiVars, ncalls, refunded,
                   workerVars, jmVars>>

-----------------------------------------------------------------------------
(* The render pipeline: script_generator.py and video_creator.py consume   *)
(* the two queues, one message at a time (prefetch_count=1).               *)

AllButWorker == <<dbVars, ledgerVars, payVars, user_videos, sub, callVars, jmVars>>

\* A write of the status snapshot of job j, which a Redis failure loses.
SetStatus(j, status, redis_ok) ==
    IF redis_ok
    THEN [k \in DOMAIN kv \cup {j} |-> IF k = j THEN status ELSE kv[k]]
    ELSE kv

\* script_generator.py on_message, lines 124-144: the script is published to
\* the video queue and the prompt acknowledged.
script_on_message(j) ==
    /\ scripts_queue[j] > 0
    /\ scripts_queue' = [scripts_queue EXCEPT ![j] = @ - 1]
    /\ video_queue' = [video_queue EXCEPT ![j] = @ + 1]
    /\ UNCHANGED <<AllButWorker, kv, vc, render_failed, renderedVars>>

\* Lines 145-147: the generation raises; the prompt is rejected without
\* requeue.
script_on_message_error(j) ==
    /\ scripts_queue[j] > 0
    /\ scripts_queue' = [scripts_queue EXCEPT ![j] = @ - 1]
    /\ UNCHANGED <<AllButWorker, kv, workerVars>>

\* video_creator.py on_message, lines 527-545: the message is delivered
\* (auto_ack=True takes it off the queue) and the status "rendering" stored.
video_on_message(w, j, redis_ok) ==
    /\ vc[w] = 0
    /\ video_queue[j] > 0
    /\ video_queue' = [video_queue EXCEPT ![j] = @ - 1]
    /\ vc' = [vc EXCEPT ![w] = j]
    /\ kv' = SetStatus(j, "rendering", redis_ok)
    /\ UNCHANGED <<AllButWorker, scripts_queue, render_failed, renderedVars>>

\* video_count.py increment_video_count, lines 38-56, called through
\* POST /api/video-count/increment (main.py 734-745).
increment_video_count(amount) == video_count + amount

\* Lines 547-568: the video is rendered into {job_id}.mp4 (line 490), the
\* status "done" stored and the count of generated videos incremented;
\* increment_video_count_postgres (lines 514-525) only prints when its
\* request fails.
video_render_done(w, counted) ==
    /\ vc[w] # 0
    /\ videos' = videos \cup {vc[w]}
    /\ kv' = SetStatus(vc[w], "done", TRUE)
    /\ done_writes' = [done_writes EXCEPT ![vc[w]] = @ + 1]
    /\ video_count' = IF counted THEN increment_video_count(1) ELSE video_count
    /\ vc' = [vc EXCEPT ![w] = 0]
    /\ UNCHANGED <<AllButWorker, scripts_queue, video_queue, render_failed>>

\* Lines 570-583: the rendering (or the write of "done") raises; the status
\* "error" is stored unless Redis fails again.  Nothing else is told to
\* anyone.
video_render_error(w, redis_ok) ==
    /\ vc[w] # 0
    /\ kv' = SetStatus(vc[w], "error", redis_ok)
    /\ render_failed' = render_failed \cup {vc[w]}
    /\ vc' = [vc EXCEPT ![w] = 0]
    /\ UNCHANGED <<AllButWorker, scripts_queue, video_queue, renderedVars>>

\* video_creator.py main, lines 610-638: the consumer is started with
\* auto_ack=True (line 623), so the broker has dropped the message when
\* on_message starts; a worker process that dies while rendering leaves
\* nothing to deliver again, and no status is written.
video_creator_crash(w) ==
    /\ vc[w] # 0
    /\ vc' = [vc EXCEPT ![w] = 0]
    /\ UNCHANGED <<AllButWorker, kv, scripts_queue, video_queue, render_failed,
                   renderedVars>>

\* main.py status_consumer, lines 99-117: the sweep of the API reads the
\* snapshot of a job (r.get, line 109) and goes on to the next key unless
\* the status it has read is queued.
status_consumer_get(j) ==
    /\ status_info = 0
    /\ j \in DOMAIN kv
    /\ kv[j] = "queued"
    /\ status_info' = j
    /\ UNCHANGED <<dbVars, ledgerVars, payVars, apiVars, callVars, workerVars,
                   scaling_jobs, job_assignments, job_history, jm_max_retries,
                   jm, jm_ret, fleetVars, worker_capacity>>

\* Lines 118-127: the snapshot that was read is stored again with the
\* status rendering (r.set, line 121, a write that does not look at the key
\* again); a failure of Redis is logged and the sweep goes on.
status_consumer_set(redis_ok) ==
    /\ status_info # 0
    /\ kv' = SetStatus(status_info, "rendering", redis_ok)
    /\ status_info' = 0
    /\ UNCHANGED <<dbVars, ledgerVars, payVars, user_videos, scripts_queue, sub,
                   callVars, workerVars, scaling_jobs, job_assignments,
                   job_history, jm_max_retries, jm, jm_ret, fleetVars,
                   worker_capacity>>

\* main.py get_user_videos, lines 506-520: the status shown to the user is
\* the one of Redis when there is one, else the one of the row.
VisibleStatus(j) ==
    IF j \in DOMAIN kv THEN kv[j]
    ELSE IF j \in DOMAIN user_videos THEN user_videos[j].status
    ELSE "none"

-----------------------------------------------------------------------------
(* job_manager.py: the job states kept in the Redis hash scaling_jobs.     *)
(* Timestamps are kept as set / not set; whether one is older than its     *)
(* timeout is left to the recovery sweep.                                  *)

AllButJobs == <<dbVars, ledgerVars, payVars, apiVars, callVars, workerVars,
                jm_max_retries, fleetVars, status_info, worker_capacity>>

\* Lines 83-96.
JobState(j) ==
    [job_id |-> j, status |-> "pending", worker_id |-> 0, assigned_at |-> FALSE,
     started_at |-> FALSE, completed_at |-> FALSE, retry_count |-> 0,
     max_retries |-> jm_max_retries, heartbeat_at |-> FALSE]

hset(h, k, v) == [x \in DOMAIN h \cup {k} |-> IF x = k THEN v ELSE h[x]]

hdel(h, k) == [x \in DOMAIN h \ {k} |-> h[x]]

\* Lines 395-403: lpush (the list is trimmed to 1000 entries).
_archive_job(job_state) == <<job_state>> \o job_history

Archived(j) == \E i \in DOMAIN job_history : job_history[i].job_id = j

\* A call of a JobManager method by one of its users, with the job state it
\* has read with get_job_state (or get_active_jobs).
NoJmCall == [pc |-> "idle", op |-> "none", job_id |-> 0, worker_id |-> 0,
             success |-> TRUE, read |-> <<>>]

JmCall(op, j, w) == [NoJmCall EXCEPT !.op = op, !.job_id = j, !.worker_id = w]

\* A caller makes one call at a time.
CanCall(c) == jm[c].pc = "idle"

\* The call reads the state of its job and goes on to write when allowed;
\* else it returns.
JmRead(c, j, allowed) ==
    IF j \in DOMAIN scaling_jobs /\ allowed
    THEN [c EXCEPT !.pc = "write", !.read = (j :> scaling_jobs[j])]
    ELSE NoJmCall

\* What a call returns after its read: False, for the reason it logs, or
\* nothing yet.
JmRejected(j, allowed, reason) ==
    IF j \notin DOMAIN scaling_jobs THEN "False: not found"
    ELSE IF ~allowed THEN reason
    ELSE jm_ret

\* Lines 77-107.  A job id is tracked once.
create_job(c, j) ==
    /\ CanCall(c)
    /\ j \notin DOMAIN scaling_jobs
    /\ ~Archived(j)
    /\ scaling_jobs' = hset(scaling_jobs, j, JobState(j))
    /\ jm_ret' = "True"
    /\ UNCHANGED <<AllButJobs, job_assignments, job_history, jm>>

\* Lines 109-122: the state is read and must be pending.
assign_job(c, j, w) ==
    /\ CanCall(c)
    /\ jm' = [jm EXCEPT ![c] =
                JmRead(JmCall("assign", j, w), j,
                       j \in DOMAIN scaling_jobs /\ scaling_jobs[j].status = "pending")]
    /\ jm_ret' = JmRejected(j, j \in DOMAIN scaling_jobs
                                  /\ scaling_jobs[j].status = "pending",
                            "False: not pending")
    /\ UNCHANGED <<AllButJobs, scaling_jobs, job_assignments, job_history>>

\* Lines 124-137: the state that was read is stored as assigned.
assign_job_write(c) ==
    /\ jm[c].pc = "write" /\ jm[c].op = "assign"
    /\ scaling_jobs' = hset(scaling_jobs, jm[c].job_id,
          [jm[c].read[jm[c].job_id] EXCEPT !.status = "assigned",
                                            !.worker_id = jm[c].worker_id,
                                            !.assigned_at = TRUE])
    /\ job_assignments' = hset(job_assignments, jm[c].worker_id, jm[c].job_id)
    /\ jm' = [jm EXCEPT ![c] = NoJmCall]
    /\ jm_ret' = "True"
    /\ UNCHANGED <<AllButJobs, job_history>>

\* Lines 154, 183 and 210: the job is stored and carries the worker_id of the
\* call.
AssignedToAnyone(j, w) == j \in DOMAIN scaling_jobs

AssignedTo(j, w) == j \in DOMAIN scaling_jobs /\ scaling_jobs[j].worker_id = w

\* Lines 143-156: the state is read and must carry the worker_id.
start_job(c, j, w) ==
    /\ CanCall(c)
    /\ jm' = [jm EXCEPT ![c] =
                JmRead(JmCall("start", j, w), j, AssignedTo(j, w))]
    /\ jm_ret' = JmRejected(j, AssignedTo(j, w), "False: not assigned to worker")
    /\ UNCHANGED <<AllButJobs, scaling_jobs, job_assignments, job_history>>

\* Lines 158-168.
start_job_write(c) ==
    /\ jm[c].pc = "write" /\ jm[c].op = "start"
    /\ scaling_jobs' = hset(scaling_jobs, jm[c].job_id,
          [jm[c].read[jm[c].job_id] EXCEPT !.status = "processing",
                                            !.started_at = TRUE,
                                            !.heartbeat_at = TRUE])
    /\ jm' = [jm EXCEPT ![c] = NoJmCall]
    /\ jm_ret' = "True"
    /\ UNCHANGED <<AllButJobs, job_assignments, job_history>>

\* Lines 174-185.
update_job_heartbeat(c, j, w) ==
    /\ CanCall(c)
    /\ jm' = [jm EXCEPT ![c] =
                JmRead(JmCall("heartbeat", j, w), j, AssignedTo(j, w))]
    /\ jm_ret' = JmRejected(j, AssignedTo(j, w), "False: not assigned to worker")
    /\ UNCHANGED <<AllButJobs, scaling_jobs, job_assignments, job_history>>

\* Lines 187-193.
update_job_heartbeat_write(c) ==
    /\ jm[c].pc = "write" /\ jm[c].op = "heartbeat"
    /\ scaling_jobs' = hset(scaling_jobs, jm[c].job_id,
          [jm[c].read[jm[c].job_id] EXCEPT !.heartbeat_at = TRUE])
    /\ jm' = [jm EXCEPT ![c] = NoJmCall]
    /\ jm_ret' = "True"
    /\ UNCHANGED <<AllButJobs, job_assignments, job_history>>

\* Lines 199-212.
complete_job(c, j, w, success) ==
    /\ CanCall(c)
    /\ jm' = [jm EXCEPT ![c] =
                JmRead([JmCall("complete", j, w) EXCEPT !.success = success], j, AssignedTo(j, w))]
    /\ jm_ret' = JmRejected(j, AssignedTo(j, w), "False: not assigned to worker")
    /\ UNCHANGED <<AllButJobs, scaling_jobs, job_assignments, job_history>>

\* Lines 214-233: the final state is stored, the assignment removed, the
\* state archived and removed from the active jobs.
complete_job_write(c) ==
    /\ jm[c].pc = "write" /\ jm[c].op = "complete"
    /\ Len(job_history) < MaxHistory
    /\ LET job_state == [jm[c].read[jm[c].job_id] EXCEPT
                            !.status = IF jm[c].success THEN "completed" ELSE "failed",
                            !.completed_at = TRUE]
       IN  /\ job_history' = _archive_job(job_state)
           /\ scaling_jobs' = hdel(scaling_jobs, jm[c].job_id)
    /\ job_assignments' = hdel(job_assignments, jm[c].worker_id)
    /\ jm' = [jm EXCEPT ![c] = NoJmCall]
    /\ jm_ret' = "True"
    /\ UNCHANGED AllButJobs

\* Lines 351-360: the state _retry_job stores.
_retry_job(job_state) ==
    [job_state EXCEPT !.status = "retrying", !.worker_id = 0,
                      !.assigned_at = FALSE, !.started_at = FALSE,
                      !.heartbeat_at = FALSE, !.retry_count = @ + 1]

\* Lines 375-384: the state _abandon_job stores and archives.
_abandon_job(job_state) ==
    [job_state EXCEPT !.status = "abandoned", !.completed_at = TRUE]

\* A sweep that takes any job for timed out.
AlwaysTimesOut(j) == TRUE

\* Lines 316-328: a job is recovered when its started_at or its heartbeat_at
\* is set and older than its timeout.
MayTimeOut(j) == scaling_jobs[j].started_at \/ scaling_jobs[j].heartbeat_at

RetriesLeftOrEqual(job_state) == job_state.retry_count <= job_state.max_retries

\* Line 331.
RetriesLeft(job_state) == job_state.retry_count < job_state.max_retries

RECURSIVE ArchiveAll(_, _, _)
ArchiveAll(history, read, js) ==
    IF js = {} THEN history
    ELSE LET j == CHOOSE x \in js : \A y \in js : x <= y
         IN  ArchiveAll(<<_abandon_job(read[j])>> \o history, read, js \ {j})

\* Lines 302-311: get_active_jobs reads all the active jobs, of which those
\* of T have timed out.
recover_abandoned_jobs(c, T) ==
    /\ CanCall(c)
    /\ T # {}
    /\ T \subseteq {j \in DOMAIN scaling_jobs : MayTimeOut(j)}
    /\ jm' = [jm EXCEPT ![c] = [JmCall("recover", 0, 0) EXCEPT
                                   !.pc = "write",
                                   !.read = [j \in T |-> scaling_jobs[j]]]]
    /\ UNCHANGED <<AllButJobs, scaling_jobs, job_assignments, job_history, jm_ret>>

\* Lines 330-337, with _retry_job (348-370) and _abandon_job (372-393): each
\* job that was read as timed out is stored as retrying when it has retries
\* left (the hdel of line 363 tests the worker_id that line 352 has just
\* cleared, so the assignment stays), and is else archived as abandoned and
\* removed with its assignment.
recover_abandoned_jobs_write(c) ==
    /\ jm[c].pc = "write" /\ jm[c].op = "recover"
    /\ LET read == jm[c].read
           retried == {j \in DOMAIN read : RetriesLeft(read[j])}
           abandoned == DOMAIN read \ retried
       IN  /\ Len(job_history) + Cardinality(abandoned) <= MaxHistory
           /\ scaling_jobs' =
                 [j \in (DOMAIN scaling_jobs \cup retried) \ abandoned |->
                     IF j \in retried THEN _retry_job(read[j]) ELSE scaling_jobs[j]]
           /\ job_history' = ArchiveAll(job_history, read, abandoned)
           /\ job_assignments' =
                 [w \in {x \in DOMAIN job_assignments :
                           \A j \in abandoned : read[j].worker_id # x}
                    |-> job_assignments[w]]
    /\ jm' = [jm EXCEPT ![c] = NoJmCall]
    /\ UNCHANGED <<AllButJobs, jm_ret>>

-----------------------------------------------------------------------------
(* health_monitor.py and controller.py: the workers report themselves in   *)
(* the Redis hash scaling_workers, and the scaling controller removes      *)
(* workers when it scales down and when they are unhealthy.  A last_seen   *)
(* is kept as older / not older than UNHEALTHY_WORKER_TIMEOUT.             *)

AllButCapacity == <<dbVars, ledgerVars, payVars, apiVars, callVars, workerVars,
                    scaling_jobs, job_assignments, job_history, jm_max_retries,
                    jm, jm_ret, scalerVars, status_info>>

AllButFleet == <<AllButCapacity, worker_capacity>>

\* current_job = None.
NoJob == 0

\* health_monitor.py lines 30-63: the monitor of a worker after __init__ and
\* start.
WorkerHealthMonitor ==
    [running |-> TRUE, current_job |-> NoJob, is_shutting_down |-> FALSE,
     shutdown |-> "no", is_healthy |-> TRUE, job_start_times |-> {},
     capacity_tracker |-> FALSE]

\* Lines 151-159: the record a heartbeat stores, with last_seen now.
WorkerData(current_job, is_shutting_down) ==
    [current_job |-> current_job, stale |-> FALSE,
     is_shutting_down |-> is_shutting_down]

\* The controller between two rounds of its loop (controller.py 692-712).
NoScaling ==
    [pc |-> "idle", containers_to_remove |-> {}, timed_out |-> FALSE,
     workers |-> <<>>, log |-> "none"]

\* Lines 136-166: the heartbeat thread stores the state of the monitor.
update_heartbeat(w) ==
    /\ hm[w].running
    /\ hm[w].shutdown = "no"
    /\ scaling_workers' =
          hset(scaling_workers, w,
               WorkerData(hm[w].current_job, hm[w].is_shutting_down))
    /\ UNCHANGED <<AllButFleet, hm, containers, ctl>>

\* capacity_tracker.py WorkerResourceLimits, lines 47-53.
max_cpu_percent == 80

max_memory_percent == 85

max_concurrent_jobs == 2

\* Efficiency scores around the limits of the tiers; the score that
\* _calculate_efficiency_score returns is a float between 0 and 100.
Scores == {0, 39, 40, 59, 60, 79, 80, 100}

\* CPU and memory usage (percent) at and above the maximum.
CpuUsages == {max_cpu_percent, max_cpu_percent + 1}

MemoryUsages == {max_memory_percent, max_memory_percent + 1}

\* A tier whose limits are not part of it.
tier_above_thresholds(score) ==
    IF score > 80 THEN "excellent"
    ELSE IF score > 60 THEN "good"
    ELSE IF score > 40 THEN "average"
    ELSE "poor"

\* capacity_tracker.py _determine_performance_tier.
_determine_performance_tier(score) ==
    IF score >= 80 THEN "excellent"
    ELSE IF score >= 60 THEN "good"
    ELSE IF score >= 40 THEN "average"
    ELSE "poor"

\* capacity_tracker.py _calculate_concurrent_limit.
_calculate_concurrent_limit(cpu_usage, memory_usage, performance_tier) ==
    LET base_limit == max_concurrent_jobs
    IN  IF cpu_usage > max_cpu_percent \/ memory_usage > max_memory_percent
        THEN 1
        ELSE IF performance_tier = "excellent"
             THEN IF base_limit + 1 <= 3 THEN base_limit + 1 ELSE 3
             ELSE IF performance_tier = "poor" THEN 1 ELSE base_limit

\* capacity_tracker.py update_worker_capacity: the usage is stored, the
\* score computed again, and the tier and the limit follow from them.  The
\* throughput, the success rate and the disk usage that the score is
\* computed from are not kept; the score is an input.
update_worker_capacity(worker_id, cpu_usage, memory_usage, score) ==
    LET performance_tier == _determine_performance_tier(score)
    IN  hset(worker_capacity, worker_id,
             [cpu_usage_percent |-> cpu_usage,
              memory_usage_percent |-> memory_usage,
              efficiency_score |-> score,
              performance_tier |-> performance_tier,
              concurrent_job_limit |->
                  _calculate_concurrent_limit(cpu_usage, memory_usage,
                                              performance_tier)])

\* A worker that looks at its health only.
accepts_when_healthy(w) == hm[w].is_healthy /\ ~hm[w].is_shutting_down

\* Lines 361-378: a worker that is unhealthy or shuts down accepts no job,
\* and neither does a worker with a capacity tracker whose jobs in
\* job_start_times have reached the limit stored for it.
should_accept_new_jobs(w) ==
    IF ~hm[w].is_healthy \/ hm[w].is_shutting_down THEN FALSE
    ELSE IF /\ hm[w].capacity_tracker
            /\ w \in DOMAIN worker_capacity
            /\ Cardinality(hm[w].job_start_times)
                  >= worker_capacity[w].concurrent_job_limit
         THEN FALSE
         ELSE TRUE

\* Lines 219-223: the job is kept in the monitor; the record of the worker
\* is not written before the next heartbeat.
set_current_job(w, j) ==
    /\ hm[w].running
    /\ hm' = [hm EXCEPT ![w].current_job = j,
                        ![w].job_start_times = @ \cup {j}]
    /\ UNCHANGED <<AllButFleet, scaling_workers, containers, ctl>>

\* Lines 225-243, with _update_capacity_metrics (380-414): the start time
\* of the job is dropped, the capacity of the worker stored when there is a
\* capacity tracker, the current job cleared and a heartbeat stored.
job_completed(w, j, cpu_usage, memory_usage, score) ==
    /\ hm[w].running
    /\ hm' = [hm EXCEPT ![w].current_job = NoJob,
                        ![w].job_start_times = @ \ {j}]
    /\ worker_capacity' =
          IF hm[w].capacity_tracker
          THEN update_worker_capacity(w, cpu_usage, memory_usage, score)
          ELSE worker_capacity
    /\ scaling_workers' =
          hset(scaling_workers, w, WorkerData(NoJob, hm[w].is_shutting_down))
    /\ UNCHANGED <<AllButCapacity, containers, ctl>>

\* Lines 245-250: the health is kept and a heartbeat stored.
set_health_status(w, healthy) ==
    /\ hm[w].running
    /\ hm' = [hm EXCEPT ![w].is_healthy = healthy]
    /\ scaling_workers' =
          hset(scaling_workers, w,
               WorkerData(hm[w].current_job, hm[w].is_shutting_down))
    /\ UNCHANGED <<AllButFleet, containers, ctl>>

\* Lines 252-262, run by the handler of SIGTERM and SIGINT (89-96) and by
\* stop (352-355): the worker is marked as shutting down and unhealthy, a
\* heartbeat stored and the shutdown event set, which ends the heartbeat
\* thread.
initiate_graceful_shutdown(w) ==
    /\ hm[w].running
    /\ hm[w].shutdown = "no"
    /\ hm' = [hm EXCEPT ![w].is_shutting_down = TRUE, ![w].is_healthy = FALSE,
                        ![w].shutdown = "initiated"]
    /\ scaling_workers' =
          hset(scaling_workers, w, WorkerData(hm[w].current_job, TRUE))
    /\ UNCHANGED <<AllButFleet, containers, ctl>>

\* Lines 264-277, with unregister_worker (168-180): a current job is logged,
\* the heartbeat thread joined and the record of the worker removed.
unregister_worker(w) ==
    /\ hm[w].running
    /\ hm[w].shutdown = "initiated"
    /\ hm' = [hm EXCEPT ![w].shutdown = "unregistered"]
    /\ scaling_workers' = hdel(scaling_workers, w)
    /\ UNCHANGED <<AllButFleet, containers, ctl>>

\* The process of a worker is killed; the job it was running stays its job
\* until the job manager recovers it.
worker_killed(w) ==
    /\ hm[w].running
    /\ hm' = [hm EXCEPT ![w].running = FALSE]
    /\ UNCHANGED <<AllButFleet, scaling_workers, containers, ctl>>

\* With the heartbeat thread gone, the last_seen of the record gets older
\* than UNHEALTHY_WORKER_TIMEOUT.
last_seen_expires(w) ==
    /\ ~hm[w].running
    /\ w \in DOMAIN scaling_workers
    /\ ~scaling_workers[w].stale
    /\ scaling_workers' = [scaling_workers EXCEPT ![w].stale = TRUE]
    /\ UNCHANGED <<AllButFleet, hm, containers, ctl>>

\* controller.py lines 534-549: the record of the worker, when there is one,
\* is marked.
_mark_worker_for_shutdown(workers, w) ==
    IF w \in DOMAIN workers
    THEN [workers EXCEPT ![w].is_shutting_down = TRUE]
    ELSE workers

\* Line 296: current_containers[target_count:].
ContainersFrom(target_count) ==
    {w \in containers : Cardinality({x \in containers : x <= w}) > target_count}

\* Lines 294-301: to scale down, the containers after the first target_count
\* are marked for shutdown.
_scale_compose_workers(target_count) ==
    /\ ctl.pc = "idle"
    /\ target_count < Cardinality(containers)
    /\ scaling_workers' =
          [w \in DOMAIN scaling_workers |->
              IF w \in ContainersFrom(target_count)
              THEN _mark_worker_for_shutdown(scaling_workers, w)[w]
              ELSE scaling_workers[w]]
    /\ ctl' = [ctl EXCEPT !.pc = "drain",
                          !.containers_to_remove = ContainersFrom(target_count),
                          !.timed_out = FALSE]
    /\ UNCHANGED <<AllButFleet, hm, containers>>

\* Lines 270-290: the names {service_name}-{i+1} that the loop of a scale-up
\* gives to containers.run, for i from the number of containers to the
\* target, up to the first name that a container already has (the Docker
\* daemon refuses it and the exception ends the loop).  Without any
\* container env_vars is the dict of line 275, whose append raises.
ContainersCreated(target_count) ==
    LET current_count == Cardinality(containers)
    IN  IF containers = {}
        THEN {}
        ELSE {n \in current_count + 1 .. target_count :
                \A m \in current_count + 1 .. n : m \notin containers}

\* Lines 269-292 and 331-335: to scale up, containers are created with
\* WORKER_ID = name and HEALTH_CHECK_PORT = 8000 + i; the worker of a new
\* container starts and registers (health_monitor.py 109-134, 312-350).
\* When a container could not be created the failure is logged and False
\* returned.
_scale_compose_workers_up(target_count) ==
    /\ ctl.pc = "idle"
    /\ target_count > Cardinality(containers)
    /\ LET created == ContainersCreated(target_count)
       IN  /\ containers' = containers \cup created
           /\ hm' = [w \in Workers |->
                       IF w \in created THEN WorkerHealthMonitor ELSE hm[w]]
           /\ scaling_workers' =
                 [w \in DOMAIN scaling_workers \cup created |->
                     IF w \in created THEN WorkerData(NoJob, FALSE)
                     ELSE scaling_workers[w]]
           /\ ctl' = [ctl EXCEPT !.log =
                        IF Cardinality(containers \cup created) = target_count
                        THEN "Created container"
                        ELSE "Failed to scale compose workers"]
    /\ UNCHANGED AllButFleet

\* Lines 558-571: no record of a container to remove shows a current job.
all_jobs_complete ==
    \A w \in ctl.containers_to_remove :
        w \in DOMAIN scaling_workers => scaling_workers[w].current_job = NoJob

\* Lines 551-575: a poll of the records finds no current job.
_wait_for_job_completion ==
    /\ ctl.pc = "drain"
    /\ all_jobs_complete
    /\ ctl' = [ctl EXCEPT !.pc = "remove"]
    /\ UNCHANGED <<AllButFleet, scaling_workers, hm, containers>>

\* Lines 555 and 577: JOB_DRAIN_TIMEOUT has passed.
_wait_for_job_completion_timeout ==
    /\ ctl.pc = "drain"
    /\ ctl' = [ctl EXCEPT !.pc = "remove", !.timed_out = TRUE]
    /\ UNCHANGED <<AllButFleet, scaling_workers, hm, containers>>

\* Lines 310-329: a container is sent SIGTERM and removed; a running worker
\* unregisters (health_monitor.py 89-96, 252-277).
remove_container(w) ==
    /\ ctl.pc = "remove"
    /\ w \in ctl.containers_to_remove
    /\ \A x \in ctl.containers_to_remove : w <= x
    /\ containers' = containers \ {w}
    /\ hm' = [hm EXCEPT ![w].running = FALSE, ![w].is_shutting_down = TRUE]
    /\ scaling_workers' =
          IF hm[w].running THEN hdel(scaling_workers, w) ELSE scaling_workers
    /\ ctl' = IF ctl.containers_to_remove = {w}
              THEN NoScaling
              ELSE [ctl EXCEPT !.containers_to_remove = @ \ {w}]
    /\ UNCHANGED AllButFleet

\* Lines 579-584, with get_worker_health (505-532): the records are read.
remove_unhealthy_workers ==
    /\ ctl.pc = "idle"
    /\ ctl' = [ctl EXCEPT !.pc = "reap", !.workers = scaling_workers]
    /\ UNCHANGED <<AllButFleet, scaling_workers, hm, containers>>

\* Lines 588-594: a worker is removed when the last_seen that was read is
\* older than the timeout and no current job was read.
Unhealthy(worker) == worker.stale /\ worker.current_job = NoJob

\* Lines 596-609: the record and the container of the worker are removed.
remove_unhealthy_worker(w) ==
    /\ ctl.pc = "reap"
    /\ w \in DOMAIN ctl.workers
    /\ Unhealthy(ctl.workers[w])
    /\ scaling_workers' = hdel(scaling_workers, w)
    /\ containers' = containers \ {w}
    /\ hm' = [hm EXCEPT ![w].running = FALSE]
    /\ ctl' = [ctl EXCEPT !.workers = hdel(ctl.workers, w)]
    /\ UNCHANGED AllButFleet

\* Lines 586-594 and 611-612: the other workers are passed over.
remove_unhealthy_workers_done ==
    /\ ctl.pc = "reap"
    /\ \A w \in DOMAIN ctl.workers : ~Unhealthy(ctl.workers[w])
    /\ ctl' = NoScaling
    /\ UNCHANGED <<AllButFleet, scaling_workers, hm, containers>>

-----------------------------------------------------------------------------
(* controller.py: the scaling decisions.  The fleet is followed here by    *)
(* its size, the number get_current_workers_count returns, and the time    *)
(* since last_scaling_action as inside / outside the cooldown period.  A   *)
(* scaling action takes time (containers are created or drained), so the   *)
(* controller is followed from the start of scale_workers to its end.      *)

AllButScaler == <<dbVars, ledgerVars, payVars, apiVars, callVars, workerVars,
                  scaling_jobs, job_assignments, job_history, jm_max_retries,
                  jm, jm_ret, scaling_workers, hm, containers, ctl,
                  status_info, worker_capacity>>

max(a, b) == IF a >= b THEN a ELSE b

min(a, b) == IF a <= b THEN a ELSE b

\* target_workers before the first tick that computes it, and after the
\* scaling action it was passed to.
NoTarget == 0

\* Lines 51-89: last_scaling_action = now - cooldown_period.
ScalingController ==
    [pc |-> "idle", in_cooldown |-> FALSE, target_workers |-> NoTarget,
     log |-> "none"]

\* Values of average_processing_time (seconds): none, and twice the 300 s
\* of line 483.
AvgTimes == {0, 600}

\* job_manager.py lines 439-458: the statistics the controller reads.  Only
\* jobs that are being processed have a processing time.
JobStatistics(workers) ==
    {js \in [processing_jobs : 0 .. MaxQueueDepth,
             workers_with_jobs : 0 .. workers,
             average_processing_time : AvgTimes] :
        js.average_processing_time > 0 => js.processing_jobs > 0}

\* Lines 466-503.  int(total_workload * min(avg / 300, 2.0)) is computed
\* on integers; healthy < current * 0.8 as 10 * healthy < 8 * current.
calculate_target_workers(queue_depth, current_workers, healthy_workers, job_stats) ==
    LET processing_jobs == job_stats.processing_jobs
        workers_with_jobs == job_stats.workers_with_jobs
        avg_processing_time == job_stats.average_processing_time
        total_workload == queue_depth + processing_jobs
        by_workload ==
            IF avg_processing_time > 0
            THEN max(total_workload,
                     (total_workload * min(avg_processing_time, 600)) \div 300)
            ELSE max(total_workload, total_workload \div 2 + 1)
        constrained == max(min_workers, min(by_workload, max_workers))
        with_jobs == max(constrained, workers_with_jobs)
    IN  IF queue_depth = 0 /\ processing_jobs = 0
        THEN max(min_workers, min(current_workers, 2))
        ELSE IF 10 * healthy_workers < 8 * current_workers
             THEN max(with_jobs, current_workers + 1)
             ELSE with_jobs

\* A controller that never finds itself inside the cooldown period.
NeverInCooldown(c) == FALSE

\* Line 397: now - last_scaling_action < cooldown_period.
InCooldown(c) == sc[c].in_cooldown

\* Lines 386-393 and 429-445, with the start of scale_workers (190-199): a
\* tick outside the cooldown computes the target and starts a scaling action
\* when it differs from the number of workers.
check_and_scale(c, queue_depth, healthy_workers, job_stats) ==
    /\ sc[c].pc = "idle"
    /\ ~InCooldown(c)
    /\ LET current_workers == worker_count
           target_workers ==
               calculate_target_workers(queue_depth, current_workers,
                                        healthy_workers, job_stats)
       IN  /\ target_workers <= MaxFleet
           /\ sc' = [sc EXCEPT ![c] =
                        [@ EXCEPT !.target_workers = target_workers,
                                  !.pc = IF target_workers # current_workers
                                         THEN "scaling" ELSE "idle",
                                  !.log = IF target_workers # current_workers
                                          THEN "Scaling workers"
                                          ELSE "No scaling needed"]]
    /\ UNCHANGED <<AllButScaler, min_workers, max_workers, worker_count, qm>>

\* Lines 397-415 and 447-448: a tick inside the cooldown reads the job
\* statistics and compares pending_jobs with current_workers * 3.
\* current_workers is a local variable of check_and_scale that is assigned
\* at line 431 only, so the comparison raises UnboundLocalError and the
\* tick ends in the handler of line 447.
check_and_scale_in_cooldown(c, pending_jobs) ==
    /\ sc[c].pc = "idle"
    /\ InCooldown(c)
    /\ sc' = [sc EXCEPT ![c].log = "Error in check_and_scale"]
    /\ UNCHANGED <<AllButScaler, min_workers, max_workers, worker_count, qm>>

\* Lines 201-230, with _scale_compose_workers (261-332): the scaling action
\* ends with target_count containers, and last_scaling_action = now.
scale_workers(c) ==
    /\ sc[c].pc = "scaling"
    /\ worker_count' = sc[c].target_workers
    /\ sc' = [sc EXCEPT ![c].pc = "idle", ![c].in_cooldown = TRUE,
                        ![c].target_workers = NoTarget,
                        ![c].log = "Successfully scaled workers"]
    /\ UNCHANGED <<AllButScaler, min_workers, max_workers, qm>>

\* Lines 231-237 and 333-335: Docker raises; last_scaling_action is kept.
scale_workers_failed(c) ==
    /\ sc[c].pc = "scaling"
    /\ sc' = [sc EXCEPT ![c].pc = "idle", ![c].target_workers = NoTarget,
                        ![c].log = "Failed to scale workers"]
    /\ UNCHANGED <<AllButScaler, min_workers, max_workers, worker_count, qm>>

\* cooldown_period seconds have passed since last_scaling_action.
cooldown_elapses(c) ==
    /\ InCooldown(c)
    /\ sc' = [sc EXCEPT ![c].in_cooldown = FALSE]
    /\ UNCHANGED <<AllButScaler, min_workers, max_workers, worker_count, qm>>

-----------------------------------------------------------------------------
(* monitor.py: the queue monitor collects the metrics and computes its     *)
(* recommendation.  Its last_scaling_action is written by __init__ only    *)
(* (line 61, now - cooldown_period), so the test of lines 233-238 never    *)
(* finds it inside the cooldown period.                                    *)

\* No metrics collected yet.
NoMetrics == [action |-> "none"]

\* Lines 249-262: the target of the queue monitor, before the decision on
\* the scaling action.
monitor_target_workers(queue_depth, active_workers, processing_jobs) ==
    LET total_workload == queue_depth + processing_jobs
        by_workload ==
            IF queue_depth = 0 /\ processing_jobs = 0
            THEN max(min_workers, min(active_workers, 2))
            ELSE min(max(total_workload, total_workload \div 2 + 1), max_workers)
    IN  max(by_workload, min_workers)

\* Lines 240-289.  healthy >= active * 0.8 is computed as
\* 10 * healthy >= 8 * active, and queue_depth < active * 0.5
\* (SCALE_DOWN_THRESHOLD) as 2 * queue_depth < active.
calculate_scaling_decision(metrics, job_stats) ==
    LET queue_depth == metrics.queue_depth
        active_workers == metrics.active_workers
        healthy_workers == metrics.healthy_workers
        processing_jobs == job_stats.processing_jobs
        workers_with_jobs == job_stats.workers_with_jobs
        target_workers ==
            monitor_target_workers(queue_depth, active_workers, processing_jobs)
        idle_workers == active_workers - workers_with_jobs
        safe_target == max(target_workers, workers_with_jobs + 1)
    IN  IF target_workers > active_workers
             /\ 10 * healthy_workers >= 8 * active_workers
        THEN [action |-> "scale_up", target_workers |-> target_workers]
        ELSE IF /\ target_workers < active_workers
                /\ idle_workers > 0
                /\ 2 * queue_depth < active_workers
             THEN [action |-> "scale_down", target_workers |-> safe_target]
             ELSE [action |-> "maintain", target_workers |-> active_workers]

\* Lines 291-315: the metrics are collected and the recommendation is
\* stored with them.
collect_metrics(queue_depth, active_workers, healthy_workers, job_stats) ==
    /\ LET metrics == [queue_depth |-> queue_depth,
                       active_workers |-> active_workers,
                       healthy_workers |-> healthy_workers]
           scaling_decision == calculate_scaling_decision(metrics, job_stats)
       IN  qm' = [queue_depth |-> queue_depth,
                  active_workers |-> active_workers,
                  healthy_workers |-> healthy_workers,
                  processing_jobs |-> job_stats.processing_jobs,
                  workers_with_jobs |-> job_stats.workers_with_jobs,
                  average_processing_time |-> job_stats.average_processing_time,
                  action |-> scaling_decision.action,
                  target_workers |-> scaling_decision.target_workers]
    /\ UNCHANGED <<AllButScaler, min_workers, max_workers, worker_count, sc>>

-----------------------------------------------------------------------------
(* Specification of the ledger *)

NoPayments ==
    /\ processed_session = {}
    /\ pay = [h \in Handlers |-> PayIdle]
    /\ credited = [k \in Checkouts |-> 0]
    /\ ndeliveries = 0

NoLedgerCalls ==
    /\ tx = [s \in DbSessions |-> Idle]
    /\ nops = 0

NoJobs ==
    /\ user_videos = <<>>
    /\ kv = <<>>
    /\ scripts_queue = [j \in Jobs |-> 0]
    /\ sub = [j \in Jobs |-> NotSubmitted]

NoCalls ==
    /\ call = [c \in Callers |-> NoCall]
    /\ ncalls = 0
    /\ refunded = [j \in Jobs |-> 0]

NoRendering ==
    /\ status_info = 0
    /\ video_queue = [j \in Jobs |-> 0]
    /\ vc = [w \in Workers |-> 0]
    /\ render_failed = {}
    /\ video_count = InitialVideoCount
    /\ done_writes = [j \in Jobs |-> 0]
    /\ videos = {}

NoTracking ==
    /\ scaling_jobs = <<>>
    /\ job_assignments = <<>>
    /\ job_history = <<>>
    /\ jm = [c \in JmCallers |-> NoJmCall]
    /\ jm_ret = "none"
    /\ scaling_workers = [w \in Workers |-> WorkerData(NoJob, FALSE)]
    /\ hm = [w \in Workers |-> WorkerHealthMonitor]
    /\ containers = Workers
    /\ ctl = NoScaling
    /\ worker_capacity = <<>>

\* controller.py lines 59-60: the defaults of MIN_WORKERS and MAX_WORKERS (1
\* and 10), the larger one cut to the largest number followed.
NoAutoscaling ==
    /\ min_workers = 1
    /\ max_workers = MaxFleet
    /\ worker_count = NumWorkers
    /\ sc = [c \in Controllers |-> ScalingController]
    /\ qm = NoMetrics

InitLedger ==
    /\ users = {}
    /\ credit_balances = <<>>
    /\ credit_transactions = EmptyBag
    /\ NoLedgerCalls
    /\ NoPayments
    /\ NoJobs
    /\ NoCalls
    /\ NoRendering
    /\ NoTracking
    /\ NoAutoscaling
    /\ jm_max_retries = JOB_MAX_RETRIES

NextLedger ==
    \E s \in DbSessions :
        \/ \E u \in Users : store_user(s, u)
        \/ \E u \in Users, n \in CreditPacks : BeginOp(s, "grant", u, n)
        \/ \E u \in Users : BeginOp(s, "spend", u, 0)
        \/ \E u \in Users : refund_credit(s, u)
        \/ grant_credits_query(s)
        \/ grant_credits_commit(s)
        \/ grant_credits_rollback(s)
        \/ spend_credit_query(s)
        \/ spend_credit_commit(s)
        \/ spend_credit_rollback(s)

SpecLedger == InitLedger /\ [][NextLedger]_vars

-----------------------------------------------------------------------------
(* Specification of the payment events: one registered user, and the      *)
(* events of its paid checkout sessions delivered any number of times.     *)

Registered ==
    /\ users = Users
    /\ credit_balances = [u \in Users |-> WelcomeCredits]
    /\ credit_transactions =
          SetToBag({CreditTransaction(u, WelcomeCredits, "welcome") : u \in Users})

InitPayment ==
    /\ Registered
    /\ NoLedgerCalls
    /\ NoPayments
    /\ NoJobs
    /\ NoCalls
    /\ NoRendering
    /\ NoTracking
    /\ NoAutoscaling
    /\ jm_max_retries = JOB_MAX_RETRIES

NextPayment ==
    \E h \in Handlers :
        \/ \E kind \in EventKinds, k \in Checkouts, up \in BOOLEAN :
               payment_check(h, kind, k, up)
        \/ payment_grant_query(h)
        \/ payment_grant_commit(h)
        \/ payment_grant_rollback(h)
        \/ payment_mark(h)

SpecPayment == InitPayment /\ [][NextPayment]_vars

-----------------------------------------------------------------------------
(* Specification of the submissions: the users are registered and each     *)
(* job_id is submitted at most once, by any user with any theme, the calls *)
(* running concurrently.                                                   *)

InitSubmit ==
    /\ Registered
    /\ NoLedgerCalls
    /\ NoPayments
    /\ NoJobs
    /\ NoCalls
    /\ NoRendering
    /\ NoTracking
    /\ NoAutoscaling
    /\ jm_max_retries = JOB_MAX_RETRIES

NextSubmit ==
    \E j \in Jobs :
        \/ \E u \in Users, theme \in Themes : submit_video(j, u, theme)
        \/ \E u \in Users, theme \in Themes : submit_video_record_error(j, u, theme)
        \/ submit_spend_query(j)
        \/ submit_spend_commit(j)
        \/ submit_spend_rollback(j)
        \/ submit_cleanup(j)
        \/ submit_cleanup_error(j)
        \/ \E up \in BOOLEAN : submit_status(j, up)
        \/ submit_status_error(j)
        \/ submit_publish(j)
        \/ \E published \in BOOLEAN : submit_publish_error(j, published)

SpecSubmit == InitSubmit /\ [][NextSubmit]_vars

-----------------------------------------------------------------------------
(* Specification of the status and refund endpoints: user 1 has bought     *)
(* credit packs and some of the job ids were submitted by it, one after    *)
(* the other, and accepted; the two endpoints are then called for any job  *)
(* id, in any order and concurrently.                                      *)

\* Credit packs bought to pay for n submissions on top of the welcome credit.
PacksFor(n) == n \div SmallPack

\* The call of the i-th accepted submission.
AcceptedCall(i, n) ==
    [NotSubmitted EXCEPT !.pc = "done", !.user = 1, !.theme = "family_guy",
        !.seen = [has |-> TRUE,
                  credits |-> WelcomeCredits + SmallPack * PacksFor(n) - (i - 1)],
        !.resp = "202", !.debits = 1]

\* The state after the submissions of the job ids A were accepted, each
\* with n messages on the scripts queue: 1, or more when a publish was
\* repeated after its connection failed to close (main.py 364-407).
Published(A, msgs) ==
    LET n == Cardinality(A)
        Rank(j) == Cardinality({x \in A : x <= j})
    IN  /\ users = Users
        /\ credit_balances =
              [u \in Users |-> IF u = 1
                               THEN WelcomeCredits + SmallPack * PacksFor(n) - n
                               ELSE WelcomeCredits]
        /\ credit_transactions =
              SetToBag({CreditTransaction(u, WelcomeCredits, "welcome") : u \in Users})
              (+) [r \in {grant_credits_row(1, SmallPack) : x \in 1 .. PacksFor(n)}
                     |-> PacksFor(n)]
              (+) [r \in {spend_credit_row(1)} |-> n]
        /\ user_videos = [j \in A |-> UserVideo(1, "family_guy")]
        /\ kv = [j \in A |-> "queued"]
        /\ scripts_queue = [j \in Jobs |-> IF j \in A THEN msgs ELSE 0]
        /\ sub = [j \in Jobs |-> IF j \in A THEN AcceptedCall(Rank(j), n)
                                            ELSE NotSubmitted]

Accepted(A) == Published(A, 1)

InitRefund ==
    /\ \E A \in SUBSET Jobs \ {{}} : Accepted(A)
    /\ NoLedgerCalls
    /\ NoPayments
    /\ NoCalls
    /\ NoRendering
    /\ NoTracking
    /\ NoAutoscaling
    /\ jm_max_retries = JOB_MAX_RETRIES

NextRefund ==
    \E c \in Callers :
        \/ \E j \in Jobs, status \in ReportedStatuses :
               update_user_video_status(c, j, status)
        \/ update_status_refund(c)
        \/ update_status_refund_error(c)
        \/ update_status_commit(c)
        \/ update_status_rollback(c)
        \/ \E j \in Jobs, u \in Users : refund_user_credit(c, j, u)
        \/ refund_credit_commit(c)
        \/ refund_credit_rollback(c)

SpecRefund == InitRefund /\ [][NextRefund]_vars

-----------------------------------------------------------------------------
(* Specification of the pipeline: an accepted job is scripted and rendered, *)
(* and the job manager tracks it and sweeps.  The consumers and the   *)
(* sweep are fair: a message that stays on its queue is consumed, a        *)
(* started rendering ends, a job that can time out is swept.  No component *)
(* calls update-status or refund-credit (neither handler of the pipeline   *)
(* makes an HTTP request on failure, and the job manager makes none), so   *)
(* the two endpoints take no step here.                                    *)

\* The job ids that go through the pipeline: one accepted job.
PipelineJobs == {1}

InitPipeline ==
    /\ Accepted(PipelineJobs)
    /\ NoLedgerCalls
    /\ NoPayments
    /\ NoCalls
    /\ NoRendering
    /\ NoTracking
    /\ NoAutoscaling
    /\ jm_max_retries \in 0 .. MaxRetriesCfg

ScriptNext ==
    \E j \in Jobs :
        \/ script_on_message(j)
        \/ script_on_message_error(j)

VideoNext ==
    \E w \in Workers :
        \/ \E j \in Jobs, ok \in BOOLEAN : video_on_message(w, j, ok)
        \/ \E counted \in BOOLEAN : video_render_done(w, counted)
        \/ \E ok \in BOOLEAN : video_render_error(w, ok)

\* In the pipeline the job manager is called by one process.
SweepNext ==
    \/ \E T \in SUBSET PipelineJobs : recover_abandoned_jobs(1, T)
    \/ recover_abandoned_jobs_write(1)

TrackNext ==
    \/ \E j \in PipelineJobs :
          \/ create_job(1, j)
          \/ \E w \in Workers : assign_job(1, j, w)
          \/ \E w \in Workers : start_job(1, j, w)
          \/ \E w \in Workers : update_job_heartbeat(1, j, w)
          \/ \E w \in Workers, success \in BOOLEAN : complete_job(1, j, w, success)
    \/ assign_job_write(1)
    \/ start_job_write(1)
    \/ update_job_heartbeat_write(1)
    \/ complete_job_write(1)

NextPipeline ==
    \/ ScriptNext
    \/ VideoNext
    \/ SweepNext
    \/ TrackNext

SpecPipeline ==
    /\ InitPipeline
    /\ [][NextPipeline]_vars
    /\ WF_vars(ScriptNext)
    /\ WF_vars(VideoNext)
    /\ WF_vars(SweepNext)
    /\ WF_vars(TrackNext)

-----------------------------------------------------------------------------
(* Specification of replayed messages: the messages of the accepted jobs   *)
(* are on the scripts queue once or several times, and the two consumers   *)
(* run.                                                                    *)

InitReplay ==
    /\ \E msgs \in 1 .. MaxReplays : Published(Jobs, msgs)
    /\ NoLedgerCalls
    /\ NoPayments
    /\ NoCalls
    /\ NoRendering
    /\ NoTracking
    /\ NoAutoscaling
    /\ jm_max_retries = JOB_MAX_RETRIES

NextReplay ==
    \/ ScriptNext
    \/ VideoNext
    \/ \E w \in Workers : video_creator_crash(w)

SpecReplay == InitReplay /\ [][NextReplay]_vars

-----------------------------------------------------------------------------
(* Specification of the health monitor: one worker, started with or        *)
(* without a capacity tracker (health_monitor.py 321-336), is given jobs   *)
(* by a caller that asks should_accept_new_jobs first and reports the end  *)
(* of the jobs it has started; its health changes and it may shut down.    *)

HealthWorkers == {1}

InitHealth ==
    /\ Registered
    /\ NoLedgerCalls
    /\ NoPayments
    /\ NoJobs
    /\ NoCalls
    /\ NoRendering
    /\ NoAutoscaling
    /\ jm_max_retries = JOB_MAX_RETRIES
    /\ scaling_jobs = <<>>
    /\ job_assignments = <<>>
    /\ job_history = <<>>
    /\ jm = [c \in JmCallers |-> NoJmCall]
    /\ jm_ret = "none"
    /\ scaling_workers = [w \in Workers |-> WorkerData(NoJob, FALSE)]
    /\ \E tracker \in BOOLEAN :
          hm = [w \in Workers |->
                  [WorkerHealthMonitor EXCEPT !.capacity_tracker = tracker]]
    /\ containers = Workers
    /\ ctl = NoScaling
    /\ worker_capacity = <<>>

NextHealth ==
    \E w \in HealthWorkers :
        \/ \E j \in Jobs \ hm[w].job_start_times :
              /\ should_accept_new_jobs(w)
              /\ set_current_job(w, j)
        \/ \E j \in hm[w].job_start_times, cpu_usage \in CpuUsages,
              memory_usage \in MemoryUsages, score \in Scores :
              job_completed(w, j, cpu_usage, memory_usage, score)
        \/ \E healthy \in BOOLEAN : set_health_status(w, healthy)
        \/ update_heartbeat(w)
        \/ initiate_graceful_shutdown(w)

SpecHealth == InitHealth /\ [][NextHealth]_vars

-----------------------------------------------------------------------------
(* Specification of the status snapshots: the message of every accepted    *)
(* job is on the scripts queue once, the two consumers run, and the API    *)
(* sweeps the snapshots of Redis.                                          *)

InitStatus ==
    /\ Accepted(Jobs)
    /\ NoLedgerCalls
    /\ NoPayments
    /\ NoCalls
    /\ NoRendering
    /\ NoTracking
    /\ NoAutoscaling
    /\ jm_max_retries = JOB_MAX_RETRIES

StatusNext ==
    \/ \E j \in Jobs : status_consumer_get(j)
    \/ \E ok \in BOOLEAN : status_consumer_set(ok)

NextStatus ==
    \/ ScriptNext
    \/ VideoNext
    \/ StatusNext

SpecStatus == InitStatus /\ [][NextStatus]_vars

-----------------------------------------------------------------------------
(* Specification of the fleet: the workers take and finish jobs, send      *)
(* heartbeats and may be killed, while the controller scales down and      *)
(* removes unhealthy workers.                                              *)

InitFleet ==
    /\ Registered
    /\ NoLedgerCalls
    /\ NoPayments
    /\ NoJobs
    /\ NoCalls
    /\ NoRendering
    /\ NoTracking
    /\ NoAutoscaling
    /\ jm_max_retries = JOB_MAX_RETRIES

WorkerNext ==
    \E w \in Workers :
        \/ update_heartbeat(w)
        \/ \E j \in Jobs :
              /\ hm[w].current_job = NoJob
              /\ should_accept_new_jobs(w)
              /\ set_current_job(w, j)
        \/ /\ hm[w].current_job # NoJob
           /\ job_completed(w, hm[w].current_job, max_cpu_percent,
                            max_memory_percent, 0)
        \/ initiate_graceful_shutdown(w)
        \/ unregister_worker(w)
        \/ worker_killed(w)
        \/ last_seen_expires(w)

\* controller.py run_scaling_loop, lines 692-712.
ControllerNext ==
    \/ \E target_count \in 0 .. NumWorkers - 1 : _scale_compose_workers(target_count)
    \/ _wait_for_job_completion
    \/ _wait_for_job_completion_timeout
    \/ \E w \in Workers : remove_container(w)
    \/ remove_unhealthy_workers
    \/ \E w \in Workers : remove_unhealthy_worker(w)
    \/ remove_unhealthy_workers_done

NextFleet ==
    \/ WorkerNext
    \/ ControllerNext

SpecFleet == InitFleet /\ [][NextFleet]_vars

\* The controller keeps running its loop.
SpecFleetFair == SpecFleet /\ WF_vars(ControllerNext)

\* The fleet with a controller that scales up as well.
NextScaleUp ==
    \/ NextFleet
    \/ \E target_count \in 1 .. NumWorkers : _scale_compose_workers_up(target_count)

SpecScaleUp == InitFleet /\ [][NextScaleUp]_vars

-----------------------------------------------------------------------------
(* Specification of the job manager: the methods of JobManager are called  *)
(* for any job id and any worker id by processes that run concurrently,    *)
(* each with its own JobManager on the same Redis.                         *)

InitJobs ==
    /\ Registered
    /\ NoLedgerCalls
    /\ NoPayments
    /\ NoJobs
    /\ NoCalls
    /\ NoRendering
    /\ NoTracking
    /\ NoAutoscaling
    /\ jm_max_retries \in 0 .. MaxRetriesCfg

NextJobs ==
    \E c \in JmCallers :
        \/ \E j \in TrackedJobs : create_job(c, j)
        \/ \E j \in TrackedJobs, w \in Workers : assign_job(c, j, w)
        \/ assign_job_write(c)
        \/ \E j \in TrackedJobs, w \in Workers : start_job(c, j, w)
        \/ start_job_write(c)
        \/ \E j \in TrackedJobs, w \in Workers : update_job_heartbeat(c, j, w)
        \/ update_job_heartbeat_write(c)
        \/ \E j \in TrackedJobs, w \in Workers, success \in BOOLEAN :
               complete_job(c, j, w, success)
        \/ complete_job_write(c)
        \/ \E T \in SUBSET TrackedJobs : recover_abandoned_jobs(c, T)
        \/ recover_abandoned_jobs_write(c)

SpecJobs == InitJobs /\ [][NextJobs]_vars

-----------------------------------------------------------------------------
(* Specification of the recovery sweep: one process calls the methods of   *)
(* its JobManager one after the other, for two job ids, so that a sweep    *)
(* acts on the jobs it has just read.                                      *)

NextRecovery ==
    \E c \in {1} :
        \/ \E j \in RecoveryJobs : create_job(c, j)
        \/ \E j \in RecoveryJobs, w \in Workers : assign_job(c, j, w)
        \/ assign_job_write(c)
        \/ \E j \in RecoveryJobs, w \in Workers : start_job(c, j, w)
        \/ start_job_write(c)
        \/ \E j \in RecoveryJobs, w \in Workers : update_job_heartbeat(c, j, w)
        \/ update_job_heartbeat_write(c)
        \/ \E j \in RecoveryJobs, w \in Workers, success \in BOOLEAN :
               complete_job(c, j, w, success)
        \/ complete_job_write(c)
        \/ \E T \in SUBSET RecoveryJobs : recover_abandoned_jobs(c, T)
        \/ recover_abandoned_jobs_write(c)

SpecRecovery == InitJobs /\ [][NextRecovery]_vars

-----------------------------------------------------------------------------
(* Specification of the scaling decisions: the controllers run with any    *)
(* configured bounds and a fleet within them, and each tick reads any      *)
(* queue depth, number of healthy workers and job statistics.              *)

InitScaling ==
    /\ Registered
    /\ NoLedgerCalls
    /\ NoPayments
    /\ NoJobs
    /\ NoCalls
    /\ NoRendering
    /\ NoTracking
    /\ jm_max_retries = JOB_MAX_RETRIES
    /\ max_workers \in 1 .. MaxWorkersCfg
    /\ min_workers \in 1 .. max_workers
    /\ worker_count \in min_workers .. max_workers
    /\ sc = [c \in Controllers |-> ScalingController]
    /\ qm = NoMetrics

NextScaling ==
    \E c \in Controllers :
        \/ \E queue_depth \in 0 .. MaxQueueDepth,
              healthy_workers \in 0 .. MaxFleet,
              job_stats \in JobStatistics(MaxFleet) :
               /\ healthy_workers <= worker_count
               /\ job_stats.workers_with_jobs <= worker_count
               /\ check_and_scale(c, queue_depth, healthy_workers, job_stats)
        \/ \E pending_jobs \in 0 .. MaxPending :
               check_and_scale_in_cooldown(c, pending_jobs)
        \/ scale_workers(c)
        \/ scale_workers_failed(c)
        \/ cooldown_elapses(c)

SpecScaling == InitScaling /\ [][NextScaling]_vars

-----------------------------------------------------------------------------
(* Specification of the queue monitor: with any configured bounds, the     *)
(* monitor collects any queue depth, numbers of active and healthy workers *)
(* and job statistics, the healthy workers and the workers with jobs being *)
(* among the active ones.                                                  *)

NextMonitor ==
    \E queue_depth \in 0 .. MaxQueueDepth,
       active_workers \in 0 .. MaxFleet,
       healthy_workers \in 0 .. MaxFleet,
       job_stats \in JobStatistics(MaxFleet) :
        /\ healthy_workers <= active_workers
        /\ job_stats.workers_with_jobs <= active_workers
        /\ collect_metrics(queue_depth, active_workers, healthy_workers,
                           job_stats)

SpecMonitor == InitScaling /\ [][NextMonitor]_vars

-----------------------------------------------------------------------------
(* Claims about the ledger *)

\* C1: for every user the stored balance equals the signed sum of the
\* amounts of the user's ledger rows (no balance row counts as 0).
C1_BalanceEqualsLedgerSum ==
    \A u \in Users : get_user_credits(u) = LedgerSum(u)

\* C2: the number of successful spends of a user (its -1 rows) never
\* exceeds the credits granted to it; of two concurrent spends on a balance
\* of 1 only one succeeds.
C2_SpendsWithinGrants ==
    \A u \in Users : SpendRows(u) <= GrantedCredits(u)

\* C3: a spend_credit call succeeds iff the stored balance is at least 1,
\* and then lowers it by exactly 1 and appends one -1 row; with no row or
\* no credit it answers 402; a call that does not succeed leaves balance
\* and ledger unchanged; the balance is never negative.
C3_SpendContract ==
    /\ [][\A s \in DbSessions :
            (tx[s].op = "spend" /\ tx[s].pc # "done" /\ tx'[s].pc = "done") =>
                LET u == tx[s].user
                IN  \/ /\ tx'[s].result = "ok"
                       /\ get_user_credits(u) >= 1
                       /\ credit_balances' = [credit_balances EXCEPT ![u] = @ - 1]
                       /\ credit_transactions' = AddRow(spend_credit_row(u))
                    \/ /\ tx'[s].result = "402"
                       /\ get_user_credits(u) < 1
                       /\ UNCHANGED <<credit_balances, credit_transactions>>
                    \/ /\ tx'[s].result = "500"
                       /\ UNCHANGED <<credit_balances, credit_transactions>>]_vars
    /\ [](\A u \in Users : get_user_credits(u) >= 0)

-----------------------------------------------------------------------------
(* Claims about the payment events *)

\* C4: however often, through whichever handler and however concurrently
\* the event of one checkout session is delivered, its credits are granted
\* exactly once: never twice, and once as soon as a delivery was answered
\* with success.
C4_CreditedExactlyOnce ==
    \A k \in Checkouts :
        /\ credited[k] <= 1
        /\ (\E h \in Handlers :
               /\ pay[h].pc = "done" /\ pay[h].session = k
               /\ pay[h].result \in {"granted", "skipped", "409"})
           => credited[k] = 1


-----------------------------------------------------------------------------
(* Claims about the submissions *)

\* The statuses of a row of user_videos that are not final.
NonTerminal == {"queued", "rendering"}

\* C5: every submission answered 202 has spent exactly one credit of the
\* caller, has exactly one message of its job_id on the scripts queue and
\* has one row of its job_id in a status that is not final.
C5_AcceptedSubmission ==
    \A j \in Jobs :
        sub[j].resp = "202" =>
            /\ sub[j].debits = 1
            /\ scripts_queue[j] = 1
            /\ j \in DOMAIN user_videos
            /\ user_videos[j].status \in NonTerminal

\* C6: a submission whose caller has no credit is answered 402, and then
\* there is no row of the job_id, no ledger row of the call and no message.
C6_NoCreditNoTrace ==
    \A j \in Jobs :
        (sub[j].pc = "done" /\ sub[j].resp # "500 record"
            /\ spend_credit_insufficient(sub[j].seen)) =>
            /\ sub[j].resp = "402"
            /\ j \notin DOMAIN user_videos
            /\ sub[j].debits = 0
            /\ scripts_queue[j] = 0

\* C7: a submission whose three publish attempts failed after the credit
\* was spent is answered 500, the credit is refunded by a +1 ledger row and
\* the job is marked failed.
C7_EnqueueFailureRefunds ==
    \A j \in Jobs :
        (sub[j].resp = "500 queue" /\ sub[j].debits = 1) =>
            /\ RefundRows(sub[j].user) >= 1
            /\ j \in DOMAIN user_videos
            /\ user_videos[j].status = "error"

\* C10: a submission with a theme that is not available is answered 400
\* and changes nothing: no row, no spent credit, no status, no message.
C10_BadThemeNoChange ==
    \A j \in Jobs :
        (sub[j].pc = "done" /\ sub[j].theme \notin AVAILABLE_THEMES
            /\ sub[j].resp \notin {"500 record", "500 credit"}) =>
            /\ sub[j].resp = "400"
            /\ j \notin DOMAIN user_videos
            /\ sub[j].debits = 0
            /\ j \notin DOMAIN kv
            /\ scripts_queue[j] = 0

-----------------------------------------------------------------------------
(* Claims about the refunds *)

\* C9: whatever calls of update-status with "error" and of refund-credit
\* are made, in any order, no job is refunded more than once.
C9_AtMostOneRefund == \A j \in Jobs : refunded[j] <= 1

\* The job manager has archived job j as abandoned.
Abandoned(j) ==
    \E i \in DOMAIN job_history :
        job_history[i].job_id = j /\ job_history[i].status = "abandoned"

\* C8: a job whose credit was spent and whose rendering failed, or which
\* the recovery sweep abandoned, eventually has a refund row in the ledger
\* and shows the status "error" to its user.
C8_FailedJobsRefunded ==
    \A j \in Jobs :
        (sub[j].debits = 1 /\ (j \in render_failed \/ Abandoned(j)))
            ~> (refunded[j] >= 1 /\ RefundRows(sub[j].user) >= 1
                   /\ VisibleStatus(j) = "error")

-----------------------------------------------------------------------------
(* Claims about the order of the writes of a submission *)

\* The submissions of user u that have spent a credit.
DebitedJobs(u) == {j \in Jobs : sub[j].user = u /\ sub[j].debits >= 1}

\* C11: at every moment of a submission, a message of a job_id is on the
\* scripts queue only if the credit of the job has been spent, and the
\* credit of a job has been spent (by one -1 row of the ledger) only if the
\* row of the job has been stored.
C11_WriteOrder ==
    /\ \A j \in Jobs :
          /\ scripts_queue[j] > 0 => sub[j].debits >= 1
          /\ sub[j].debits >= 1 => j \in DOMAIN user_videos
          /\ sub[j].debits <= 1
    /\ \A u \in Users : SpendRows(u) = Cardinality(DebitedJobs(u))

C11_Witness ==
    \E j \in Jobs :
        scripts_queue[j] > 0 /\ sub[j].debits = 1 /\ j \in DOMAIN user_videos

-----------------------------------------------------------------------------
(* Claims about the job manager *)

\* The status of a job: that of its active state, else that of its newest
\* archived state.
StatusOf(j) ==
    IF j \in DOMAIN scaling_jobs THEN scaling_jobs[j].status
    ELSE IF Archived(j)
         THEN job_history[CHOOSE i \in DOMAIN job_history :
                             /\ job_history[i].job_id = j
                             /\ \A k \in 1 .. i - 1 : job_history[k].job_id # j].status
         ELSE "none"

\* The edges of the job state machine: creation, assign, start, complete and
\* the recovery sweep.
AllowedEdges ==
    {<<"none", "pending">>, <<"pending", "assigned">>,
     <<"assigned", "processing">>,
     <<"processing", "completed">>, <<"processing", "failed">>,
     <<"assigned", "retrying">>, <<"assigned", "abandoned">>,
     <<"processing", "retrying">>, <<"processing", "abandoned">>}

\* C12: every change of the status of a job made by the job manager follows
\* an allowed edge: assign only from pending to assigned, start only from
\* assigned to processing, complete only from processing to completed or
\* failed, the recovery sweep only from assigned or processing to retrying
\* or abandoned.
C12_AllowedEdges ==
    [][\A j \in TrackedJobs :
          StatusOf(j)' # StatusOf(j) => <<StatusOf(j), StatusOf(j)'>> \in AllowedEdges]_vars

\* Job j is stored with another worker_id than w.
Mismatch(j, w) == j \in DOMAIN scaling_jobs /\ scaling_jobs[j].worker_id # w

\* C13: a call of start_job, update_job_heartbeat or complete_job with a
\* worker_id other than that of the stored job returns False and leaves the
\* job, the assignments and the history as they are.
C13_WorkerMismatchRejected ==
    [][\A c \in JmCallers, j \in TrackedJobs, w \in Workers :
          (/\ Mismatch(j, w)
           /\ \/ start_job(c, j, w)
              \/ update_job_heartbeat(c, j, w)
              \/ \E success \in BOOLEAN : complete_job(c, j, w, success)) =>
              /\ jm_ret' = "False: not assigned to worker"
              /\ jm'[c] = NoJmCall
              /\ UNCHANGED <<scaling_jobs, job_assignments, job_history>>]_vars

C13_Witness ==
    /\ jm_ret = "False: not assigned to worker"
    /\ \E j \in DOMAIN scaling_jobs :
          scaling_jobs[j].status = "processing" /\ scaling_jobs[j].worker_id \in Workers

\* Job j has been archived in a final status.
Terminal(j) ==
    \E i \in DOMAIN job_history :
        /\ job_history[i].job_id = j
        /\ job_history[i].status \in {"completed", "failed", "abandoned"}

\* C14: a job that is completed, failed or abandoned is in the history and
\* not among the active jobs, and no later step of assign, start, heartbeat,
\* complete or the recovery sweep changes its status, the active jobs or
\* its entries of the history.
C14_TerminalIsFinal ==
    [][\A j \in TrackedJobs :
          Terminal(j) =>
              /\ j \notin DOMAIN scaling_jobs
              /\ j \notin DOMAIN scaling_jobs'
              /\ StatusOf(j)' = StatusOf(j)
              /\ job_history' = job_history]_vars

\* The workers the assignments give job j to.
OwnersOf(j) == {w \in DOMAIN job_assignments : job_assignments[w] = j}

\* C15: when two callers race for a transition of a job (two assigns of a
\* pending job to different workers, or a complete and a recovery sweep),
\* one of them takes effect: no job is ever owned by two workers, and a job
\* archived as completed is never back among the active jobs.
C15_RacesResolved ==
    \A j \in TrackedJobs :
        /\ Cardinality(OwnersOf(j)) <= 1
        /\ (\E i \in DOMAIN job_history :
               job_history[i].job_id = j /\ job_history[i].status = "completed")
              => j \notin DOMAIN scaling_jobs

\* The job states stored among the active jobs and in the history.
StoredStates ==
    {scaling_jobs[j] : j \in DOMAIN scaling_jobs}
        \cup {job_history[i] : i \in DOMAIN job_history}

\* C16: the retry_count of a job never exceeds its max_retries, and a job
\* is abandoned only with its retry_count equal to its max_retries.
C16_RetriesBounded ==
    \A job_state \in StoredStates :
        /\ job_state.retry_count <= job_state.max_retries
        /\ job_state.status = "abandoned" =>
              job_state.retry_count = job_state.max_retries

C16_Witness ==
    \E i \in DOMAIN job_history :
        /\ job_history[i].status = "abandoned"
        /\ job_history[i].retry_count = job_history[i].max_retries

\* C17: a job that the recovery sweep has put into retrying after its
\* worker died does not stay there: it is delivered again and leaves the
\* status retrying for another worker to run it.
C17_RetryingIsLeft ==
    \A j \in PipelineJobs : (StatusOf(j) = "retrying") ~> (StatusOf(j) # "retrying")

-----------------------------------------------------------------------------
(* Claims about replayed messages *)

\* The jobs whose status was written as done.
DoneJobs == {j \in Jobs : done_writes[j] >= 1}

\* C18: however many times the video message of a job is delivered to the
\* render workers, the job goes to done at most once, has at most one
\* output file, and adds at most one to the count of generated videos.
C18_ReplayIdempotent ==
    /\ \A j \in Jobs :
          /\ done_writes[j] <= 1
          /\ Cardinality({f \in videos : f = j}) <= 1
    /\ video_count - InitialVideoCount <= Cardinality(DoneJobs)

-----------------------------------------------------------------------------
(* Claims about the fleet *)

\* C19: when it scales down, the controller terminates a worker it has
\* selected only when the drain timeout has passed or the record of no
\* selected worker shows a current job; before the timeout no worker is
\* terminated while it runs a job.
C19_DrainBeforeTerminate ==
    [][\A w \in Workers :
          remove_container(w) =>
              \/ ctl.timed_out
              \/ all_jobs_complete /\ hm[w].current_job = NoJob]_vars

\* C20: the removal of unhealthy workers removes the record and the
\* container only of a worker whose last_seen is older than
\* UNHEALTHY_WORKER_TIMEOUT and that has no job of its own.
C20_ReapOnlyIdle ==
    [][\A w \in Workers :
          remove_unhealthy_worker(w) =>
              /\ w \in DOMAIN scaling_workers
              /\ scaling_workers[w].stale
              /\ hm[w].current_job = NoJob]_vars

\* C21: a record of a worker whose last_seen is older than the threshold is
\* removed by the controller; no stale record stays in the registry for
\* ever.
C21_StaleRecordsRemoved ==
    \A w \in Workers :
        (w \in DOMAIN scaling_workers /\ scaling_workers[w].stale)
            ~> (w \notin DOMAIN scaling_workers)

\* C25: once the record of a worker carries is_shutting_down, it carries it
\* until the record is removed, and should_accept_new_jobs of that worker
\* is false, whatever heartbeats the worker sends.
C25_ShutdownMarkSticks ==
    [][\A w \in Workers :
          (w \in DOMAIN scaling_workers /\ scaling_workers[w].is_shutting_down)
              => /\ ~should_accept_new_jobs(w)
                 /\ w \in DOMAIN scaling_workers'
                       => scaling_workers'[w].is_shutting_down]_vars

\* C30: a worker that shuts down gracefully removes its record only after
\* its job in flight was finished and reported; the record is never removed
\* by the worker while it has a current job.
C30_UnregisterAfterJobs ==
    [][\A w \in Workers :
          unregister_worker(w)
              => /\ hm[w].is_shutting_down
                 /\ hm[w].current_job = NoJob]_vars

\* C22: the target computed by the scaling controller lies between
\* MIN_WORKERS and MAX_WORKERS, and the fleet never has more than
\* MAX_WORKERS workers.
C22_TargetWithinBounds ==
    /\ worker_count <= max_workers
    /\ \A c \in Controllers :
          sc[c].target_workers # NoTarget
              => sc[c].target_workers \in min_workers .. max_workers

\* C24: at most one scaling controller is inside a scaling action at any
\* time.
C24_OneMutationAtATime ==
    Cardinality({c \in Controllers : sc[c].pc = "scaling"}) <= 1

C27_CooldownOverride ==
    [][\A c \in Controllers, pending_jobs \in 0 .. MaxPending :
          (check_and_scale_in_cooldown(c, pending_jobs)
             /\ pending_jobs > worker_count * 3)
              => sc'[c].log \in {"Scaling workers", "No scaling needed"}]_vars

\* The recommendation algorithm of the queue monitor as it is specified.
clamp(lo, x, hi) == max(lo, min(x, hi))

SpecifiedTarget ==
    IF qm.queue_depth + qm.processing_jobs = 0
    THEN clamp(min_workers, min(qm.active_workers, 2), max_workers)
    ELSE LET workload == qm.queue_depth + qm.processing_jobs
         IN  clamp(min_workers, max(workload, workload \div 2 + 1), max_workers)

SpecifiedDecision ==
    IF SpecifiedTarget > qm.active_workers
         /\ 10 * qm.healthy_workers >= 8 * qm.active_workers
    THEN [action |-> "scale_up", target_workers |-> SpecifiedTarget]
    ELSE IF /\ SpecifiedTarget < qm.active_workers
            /\ qm.active_workers - qm.workers_with_jobs > 0
            /\ 2 * qm.queue_depth < qm.active_workers
         THEN [action |-> "scale_down",
               target_workers |-> max(SpecifiedTarget, qm.workers_with_jobs + 1)]
         ELSE [action |-> "maintain", target_workers |-> qm.active_workers]

\* C23: the recommendation of the queue monitor is the one of the
\* specified algorithm: the same action, and the same target when it is
\* scale_up or scale_down.
C23_RecommendationAsSpecified ==
    qm.action # "none"
        => /\ qm.action = SpecifiedDecision.action
           /\ qm.action # "maintain"
                 => qm.target_workers = SpecifiedDecision.target_workers

\* C28: a recommendation scale_up or scale_down has a target different from
\* the number of active workers, and no recommendation has a target below
\* the number of workers with jobs.
C28_RecommendationChangesFleet ==
    qm.action # "none"
        => /\ qm.action \in {"scale_up", "scale_down"}
                 => qm.target_workers # qm.active_workers
           /\ qm.target_workers >= qm.workers_with_jobs

C32_IdleWorkersFirst ==
    [][(ctl.pc = "idle" /\ ctl'.pc = "drain")
          => LET selected == ctl'.containers_to_remove
                 idle == {w \in containers :
                             w \in DOMAIN scaling_workers
                                => scaling_workers[w].current_job = NoJob}
             IN  \A w \in selected :
                     w \notin idle => Cardinality(idle) < Cardinality(selected)]_vars

\* C40: the record of a worker that has unregistered stays absent from
\* scaling_workers, whatever the worker does afterwards.
C40_UnregisteredStaysAbsent ==
    [][\A w \in Workers :
          (hm[w].shutdown = "unregistered" /\ w \notin DOMAIN scaling_workers)
              => w \notin DOMAIN scaling_workers']_vars

-----------------------------------------------------------------------------
(* Claims about acknowledgements *)

\* C35: a message is acknowledged only after its handler has reached a
\* terminal outcome, so a video creator that crashes between the delivery
\* and the end of the rendering leaves its message unacknowledged, and the
\* broker puts it back on the video queue to be delivered again.
C35_CrashLeavesMessage ==
    [][\A w \in Workers :
          video_creator_crash(w)
              => video_queue'[vc[w]] = video_queue[vc[w]] + 1]_vars

-----------------------------------------------------------------------------
(* Claims about the end of a job *)

\* C38: every job that was accepted with 202 eventually shows the status
\* done or error; also a job whose script generation failed and whose
\* prompt was rejected leaves queued and rendering.
C38_AcceptedJobsEnd ==
    \A j \in PipelineJobs :
        (sub[j].resp = "202") ~> (VisibleStatus(j) \in {"done", "error"})

-----------------------------------------------------------------------------
(* Claims about the two computations of the target *)

\* The target of the scaling controller for the inputs of the last metrics.
ControllerTarget ==
    calculate_target_workers(
        qm.queue_depth, qm.active_workers, qm.healthy_workers,
        [processing_jobs |-> qm.processing_jobs,
         workers_with_jobs |-> qm.workers_with_jobs,
         average_processing_time |-> qm.average_processing_time])

\* C34: for the same queue depth, numbers of workers and job statistics,
\* the target that the scaling controller computes is equal to the target
\* that the formula of the queue monitor gives.
C34_SameTarget ==
    qm.action # "none"
        => ControllerTarget
             = monitor_target_workers(qm.queue_depth, qm.active_workers,
                                      qm.processing_jobs)

-----------------------------------------------------------------------------
(* Claims about the status snapshots *)

\* C37: once the status snapshot of a job is done or error it never goes
\* back to queued or rendering, however the sweep of the API and the writes
\* of the render workers interleave.
C37_EndedStatusStays ==
    [][\A j \in DOMAIN kv :
          kv[j] \in {"done", "error"} => kv'[j] \notin {"queued", "rendering"}]_vars

-----------------------------------------------------------------------------
(* Claims about the health monitor and the capacity of a worker *)

\* C39: after any sequence of calls of set_current_job and job_completed,
\* the current_job of a worker is empty exactly when the worker has no job
\* in flight, that is no entry in job_start_times.
C39_CurrentJobIffInFlight ==
    \A w \in Workers :
        hm[w].current_job = NoJob <=> hm[w].job_start_times = {}

C36_TierAndLimit ==
    \A w \in DOMAIN worker_capacity :
        LET c == worker_capacity[w]
            score == c.efficiency_score
            tier == c.performance_tier
            constrained == \/ c.cpu_usage_percent > max_cpu_percent
                           \/ c.memory_usage_percent > max_memory_percent
        IN  /\ tier = "excellent" <=> score >= 80
            /\ tier = "good" <=> (60 <= score /\ score < 80)
            /\ tier = "average" <=> (40 <= score /\ score < 60)
            /\ tier = "poor" <=> score < 40
            /\ constrained => c.concurrent_job_limit = 1
            /\ (~constrained /\ tier = "excellent")
                  => c.concurrent_job_limit = min(max_concurrent_jobs + 1, 3)
            /\ (~constrained /\ tier = "poor") => c.concurrent_job_limit = 1
            /\ (~constrained /\ tier \in {"good", "average"})
                  => c.concurrent_job_limit = max_concurrent_jobs
            /\ c.concurrent_job_limit \in 1 .. 3

\* A worker whose capacity was stored with a score at the limit of the
\* excellent tier and usage at the maximum, and so with a limit of 3.
C36_Witness ==
    \E w \in DOMAIN worker_capacity :
        /\ worker_capacity[w].efficiency_score = 80
        /\ worker_capacity[w].cpu_usage_percent = max_cpu_percent
        /\ worker_capacity[w].memory_usage_percent = max_memory_percent
        /\ worker_capacity[w].concurrent_job_limit = 3

-----------------------------------------------------------------------------
(* Claims about scaling up *)

\* C33: after any sequence of scale-up, scale-down and reaping, a scale-up
\* to a target brings the fleet to the target size, with a container of its
\* own name (worker_id and health port) for every new worker.
C33_ScaleUpReachesTarget ==
    [][\A target_count \in 1 .. NumWorkers :
          _scale_compose_workers_up(target_count)
              => Cardinality(containers') = target_count]_vars

====
